---- MODULE Spec2Model ----
(***************************************************************************)
(* Model of tools_2.0/erowid/extract_doses_2.0.py: the resumable crawl     *)
(* orchestrator (main), the category and report fetch tasks run on a       *)
(* ThreadPoolExecutor, the progress ledger (progress.json), the report     *)
(* store (temp_doses/dose_<id>.json) and the merge step of the aggregator. *)
(*                                                                         *)
(* Strings that the code inspects (URLs, hrefs) are sequences of tokens,   *)
(* so that startswith, the report-link pattern and the ID pattern are      *)
(* computed on them.  A file is a record with a kind: "missing" (no such   *)
(* file), "empty" (just truncated by open(..., 'w')), "ok" (one complete   *)
(* JSON document) or "corrupt" (bytes that json.load rejects).             *)
(***************************************************************************)
EXTENDS Integers, Sequences, FiniteSets, Bags, TLC

VARIABLES
    opc,              \* position of the orchestrator (main thread) in main()
    progress,         \* main's local `progress` (line 293)
    blocked,          \* main's local `blocked` (line 342)
    cfut,             \* category futures: status and result of each submitted get_report_urls
    cyielded,         \* category futures already yielded by as_completed (line 353)
    all_report_urls,  \* main's local set (line 341)
    rfut,             \* report futures: status and locals of each submitted process_report
    ledgerFile,       \* content of PROGRESS_FILE
    store,            \* TEMP_DATA_DIR: report id -> content of dose_<id>.json
    all_doses,        \* main's local `all_doses` (line 394), keyed by <<substance, method>>
    repSentinel,      \* history: the report loop has read a 'BLOCKED' result (line 388)
    overlapped,       \* history: in this run some update_progress began while another was in progress
    lastSave,         \* history: the arguments of the latest direct save_temp_report call
    inputs,           \* which of the two input files exist (lines 44 and 62)
    final,            \* what the run has put out: the final result file, the warning, the exit status
    call              \* history: the argument and the result of a direct call of the analysis

vars ==
    <<opc, progress, blocked, cfut, cyielded, all_report_urls, rfut, ledgerFile, store,
      all_doses, repSentinel, overlapped, lastSave, inputs, final, call>>

(***************************************************************************)
(* Bounds and program constants                                            *)
(***************************************************************************)
\* Worker threads of each pool (line 31; the value is scaled down from 4 so
\* that three submitted tasks already leave one in the queue).
MAX_WORKERS == 2

\* Cap of report URLs merged per category (line 32; scaled down from 500).
MAX_REPORTS_PER_CATEGORY == 2

EmptyMap == << >>

(***************************************************************************)
(* URLs and hrefs as token sequences                                       *)
(***************************************************************************)
Digits == {"7", "8"}
HttpTokens == {"https://www.erowid.org", "http://erowid.org"}
SlashTokens == {"/experiences/", "/"}

RelHref(n) == <<"exp.php?", "ID=", n>>
RootHref(n) == <<"/experiences/", "exp.php?", "ID=", n>>
AbsHref(n) == <<"http://erowid.org", "/experiences/", "exp.php?", "ID=", n>>
OtherHref == <<"/experiences/", "exp_vaults.php?", "ID=", "7">>

\* href=re.compile(r'exp\.php\?ID=\d+') (line 133): the pattern occurs in the href.
IsReportHref(h) ==
    \E i \in 1..(Len(h) - 2) :
        h[i] = "exp.php?" /\ h[i + 1] = "ID=" /\ h[i + 2] \in Digits

\* Lines 134-140: absolute hrefs are kept, the others are completed.
HrefToUrl(h) ==
    IF h[1] \in HttpTokens THEN h
    ELSE IF h[1] \in SlashTokens THEN <<"https://www.erowid.org">> \o h
    ELSE <<"https://www.erowid.org", "/experiences/">> \o h

Contains(s, x) == \E i \in DOMAIN s : s[i] = x

\* Variant: a URL is appended each time it is met.
RECURSIVE CollectUrlsRepeating(_, _)
CollectUrlsRepeating(hrefs, urls) ==
    IF hrefs = <<>> THEN urls
    ELSE IF IsReportHref(Head(hrefs))
         THEN CollectUrlsRepeating(Tail(hrefs), Append(urls, HrefToUrl(Head(hrefs))))
         ELSE CollectUrlsRepeating(Tail(hrefs), urls)

\* Lines 132-144: the distinct URLs of the report links, in first-seen order.
RECURSIVE CollectUrls(_, _)
CollectUrls(hrefs, urls) ==
    IF hrefs = <<>> THEN urls
    ELSE LET h == Head(hrefs)
             url == HrefToUrl(h)
         IN  IF IsReportHref(h) /\ ~Contains(urls, url)
             THEN CollectUrls(Tail(hrefs), Append(urls, url))
             ELSE CollectUrls(Tail(hrefs), urls)

\* hashlib.md5(url.encode()).hexdigest(): a digest that differs for different URLs.
Md5(url) == <<"md5">> \o url

\* Lines 96-100: the digits after the first "ID=" of the URL, else the digest.
get_report_id(url) ==
    LET hits == {i \in 1..(Len(url) - 1) : url[i] = "ID=" /\ url[i + 1] \in Digits}
    IN  IF hits # {}
        THEN <<"id", url[(CHOOSE i \in hits : \A j \in hits : i <= j) + 1]>>
        ELSE Md5(url)

(***************************************************************************)
(* Labels and dose strings as character sequences                          *)
(***************************************************************************)
DigitChars == <<"0", "1", "2", "3", "4", "5", "6", "7", "8", "9">>
UpperChars ==
    <<"A", "B", "C", "D", "E", "F", "G", "H", "I", "J", "K", "L", "M",
      "N", "O", "P", "Q", "R", "S", "T", "U", "V", "W", "X", "Y", "Z">>
LowerChars ==
    <<"a", "b", "c", "d", "e", "f", "g", "h", "i", "j", "k", "l", "m",
      "n", "o", "p", "q", "r", "s", "t", "u", "v", "w", "x", "y", "z">>
Whitespace == {" ", "\t", "\n"}

IsDigit(c) == \E i \in DOMAIN DigitChars : DigitChars[i] = c
DigitVal(c) == (CHOOSE i \in DOMAIN DigitChars : DigitChars[i] = c) - 1

\* str.lower(), character by character.
LowerChar(c) ==
    IF \E i \in DOMAIN UpperChars : UpperChars[i] = c
    THEN LowerChars[CHOOSE i \in DOMAIN UpperChars : UpperChars[i] = c]
    ELSE c
Lower(str) == [i \in DOMAIN str |-> LowerChar(str[i])]

\* [a-zµ] (line 203).
IsUnitChar(c) == c = "µ" \/ \E i \in DOMAIN LowerChars : LowerChars[i] = c

\* Line 40: re.sub(r"[- ,]", "", name.lower()).
IsKept(c) == c \notin {"-", " ", ","}
normalize(name) == SelectSeq(Lower(name), IsKept)

(***************************************************************************)
(* The environment: the link map and what the site serves                  *)
(***************************************************************************)
\* substances_erowid_links.json as <<substance, category name, category URL>>.
erowid_data ==
    { <<"LSD", "General", "cat_lsd_general">>,
      <<"LSD", "First Times", "cat_lsd_first">>,
      <<"LSD", "Media Coverage", "cat_lsd_media">>,
      <<"MDMA", "General", "cat_mdma_general">> }

\* Lines 325-331.
VALID_CATEGORIES ==
    { "General", "First Times", "Combinations", "Retrospective / Summary",
      "Preparation / Recipes", "Difficult Experiences", "Bad Trips",
      "Health Problems", "Train Wrecks & Trip Disasters", "Addiction & Habituation",
      "Glowing Experiences", "Mystical Experiences", "Health Benefits",
      "Families", "What Was in That?" }

\* Lines 61-66: the link map, or {} when the file does not exist.
load_erowid_links_json(exists) == IF exists THEN erowid_data ELSE {}

\* Lines 324-336.
CategoryUrls(links) == {t[3] : t \in {x \in links : x[2] \in VALID_CATEGORIES}}
all_category_urls == CategoryUrls(erowid_data)

\* drugs.json: the entries in file order, each with its pretty_name (<<>>: the
\* entry has none).
drugs_json ==
    << [pretty_name |-> <<"L", "S", "D">>],
       [pretty_name |-> <<>>],
       [pretty_name |-> <<"M", "D", "M", "A">>] >>

\* Lines 42-59: `order`, or [] when the file does not exist.
RECURSIVE PrettyNames(_)
PrettyNames(entries) ==
    IF entries = <<>> THEN <<>>
    ELSE (IF Head(entries).pretty_name # <<>> THEN <<Head(entries).pretty_name>> ELSE <<>>)
             \o PrettyNames(Tail(entries))
load_drugs_json(exists) == IF exists THEN PrettyNames(drugs_json) ELSE <<>>

\* The anchors of each category page, in page order.
PageLinks(c) ==
    CASE c = "cat_lsd_general" -> <<RelHref("7"), OtherHref, RelHref("7"), RootHref("8"), AbsHref("7")>>
      [] c = "cat_lsd_first" -> <<AbsHref("7")>>
      [] c = "cat_mdma_general" -> <<RootHref("8"), RelHref("7")>>
      [] OTHER -> <<>>

\* Line 172: the status code and the window of response.text that is searched
\* for the marker "Blocked", and the length of the marker.
Forbidden == 403
BlockWindow == 500
MarkerLen == 7

\* What session.get gives: an exception (kind "exception"), or a response with
\* its status code, the offset of the first "Blocked" in its text (-1: none)
\* and whether the parse of the page goes through.
NoResponse == [kind |-> "none", status_code |-> 0, marker |-> -1, parses |-> FALSE]
Timeout == [kind |-> "exception", status_code |-> 0, marker |-> -1, parses |-> FALSE]
Page(code, marker, parses) ==
    [kind |-> "response", status_code |-> code, marker |-> marker, parses |-> parses]

\* Variant: only the status code is inspected.
IsBlockPageByStatus(resp) == resp.status_code = Forbidden

\* Lines 126 and 172: response.status_code == 403 or "Blocked" in response.text[:500].
IsBlockPage(resp) ==
    \/ resp.status_code = Forbidden
    \/ resp.marker >= 0 /\ resp.marker + MarkerLen <= BlockWindow

\* The control flow of process_report (lines 166-191) on what the request gave.
Outcome(resp) ==
    IF resp.kind = "exception" THEN "error"
    ELSE IF IsBlockPage(resp) THEN "BLOCKED"
    ELSE IF ~resp.parses THEN "error"
    ELSE "ok"

\* What the site can answer to the request for a report: no answer, a 403, a
\* page that starts with the marker, a page whose parse raises, or the report
\* page (one of them carries the word beyond the searched window).
Responses(u) ==
    { Timeout, Page(Forbidden, -1, TRUE), Page(200, 0, TRUE), Page(200, -1, FALSE),
      IF u[1] = "https://www.erowid.org" THEN Page(200, -1, TRUE)
      ELSE Page(200, BlockWindow - MarkerLen + 1, TRUE) }

\* What the site can answer to the request for a category page: no answer, a
\* 403, a page with the marker at the very end of the searched window, a page
\* whose parse raises, or a page with the marker just beyond the window.
CatResponses ==
    { Timeout, Page(Forbidden, -1, TRUE), Page(200, BlockWindow - MarkerLen, TRUE),
      Page(200, -1, FALSE), Page(200, BlockWindow - MarkerLen + 1, TRUE) }

\* Variant: an exception of the request or of the parse is the sentinel.
get_report_urls_error_blocks(resp, hrefs) ==
    IF Outcome(resp) = "ok"
    THEN [kind |-> "urls", urls |-> CollectUrls(hrefs, <<>>)]
    ELSE [kind |-> "BLOCKED", urls |-> <<>>]

\* Lines 118-147: what get_report_urls returns on the answer to its request
\* and the anchors of the page: 'BLOCKED', [] or the report URLs.
get_report_urls(resp, hrefs) ==
    CASE Outcome(resp) = "BLOCKED" -> [kind |-> "BLOCKED", urls |-> <<>>]
      [] Outcome(resp) = "error" -> [kind |-> "urls", urls |-> <<>>]
      [] OTHER -> [kind |-> "urls", urls |-> CollectUrls(hrefs, <<>>)]

\* What extract_doses_from_text returns for the text the site serves for a
\* report: two records, one record, or none.
Rec1 ==
    [substance |-> <<"L", "S", "D">>, dose |-> <<"1", "0", "0", " ", "u", "g">>,
     method |-> "oral"]
Rec2 ==
    [substance |-> <<"M", "D", "M", "A">>, dose |-> <<"1", "2", "0", " ", "m", "g">>,
     method |-> "oral"]
ExtractionResults(u) ==
    IF get_report_id(u) = <<"id", "8">> THEN {<<Rec1>>}
    ELSE IF u[1] = "https://www.erowid.org" THEN {<<Rec1, Rec2>>}
    ELSE {<<>>}

(***************************************************************************)
(* Files                                                                   *)
(***************************************************************************)
MissingLedger == [kind |-> "missing", data |-> EmptyMap]
EmptyLedger == [kind |-> "empty", data |-> EmptyMap]
CorruptLedger == [kind |-> "corrupt", data |-> EmptyMap]
OkLedger(d) == [kind |-> "ok", data |-> d]

\* Lines 72-79.
load_progress(f) == IF f.kind = "ok" THEN f.data ELSE EmptyMap

\* Variant: the mapping is replaced by the one entry.
SetKeyAlone(d, url, status) == (url :> status)

\* data[url] = status (line 90).
SetKey(d, url, status) == (url :> status) @@ d

Get(d, url) == IF url \in DOMAIN d THEN d[url] ELSE "absent"

IsSubMap(a, b) == \A k \in DOMAIN a : k \in DOMAIN b /\ a[k] = b[k]

\* Variant: the writer keeps the entries it finds in the file.
LedgerAfterDumpKeeping(f, d) == {OkLedger(d @@ f.data)}

\* What the file can hold after json.dump + close (lines 91-92) by a writer
\* whose open(..., 'w') truncated it earlier.  If nobody wrote since, the file is
\* the writer's document.  If another writer's bytes are in the file, the
\* writer's bytes overlay them from offset 0: the result is the writer's
\* document when it is at least as long, and otherwise unparsable.
LedgerAfterDump(f, d) ==
    IF f.kind \in {"empty", "missing"} \/ (f.kind = "ok" /\ IsSubMap(f.data, d))
    THEN {OkLedger(d)}
    ELSE {OkLedger(d), CorruptLedger}

EmptyReport == [kind |-> "empty", url |-> <<>>, doses |-> <<>>]
CorruptReport == [kind |-> "corrupt", url |-> <<>>, doses |-> <<>>]
OkReport(url, doses) == [kind |-> "ok", url |-> url, doses |-> doses]

\* The same for a result file (lines 111-112).
ReportAfterDump(f, url, doses) ==
    IF f.kind = "empty" \/ f = OkReport(url, doses)
    THEN {OkReport(url, doses)}
    ELSE {OkReport(url, doses), CorruptReport}

\* Lines 104-105 and 111: open(filename, 'w') creates or truncates dose_<id>.json.
SaveOpen(files, url) == (get_report_id(url) :> EmptyReport) @@ files

\* Lines 106-112: json.dump and the close; the stores that can result.
SaveDump(files, url, doses) ==
    {[files EXCEPT ![get_report_id(url)] = f] :
        f \in ReportAfterDump(files[get_report_id(url)], url, doses)}

\* Variant: an existing result file is kept as it is.
save_temp_report_keeping(files, url, doses) ==
    IF get_report_id(url) \in DOMAIN files THEN {files}
    ELSE SaveDump(SaveOpen(files, url), url, doses)

\* Lines 102-112, a call that no other writer of the file interleaves.
save_temp_report(files, url, doses) == SaveDump(SaveOpen(files, url), url, doses)

NoSave == [url |-> <<>>, doses |-> <<>>, again |-> FALSE]
NoCall == [fn |-> "", arg |-> <<>>, ret |-> <<>>, returned |-> FALSE]

\* Nothing is put out before line 459.
NoFinal == [written |-> FALSE, entries |-> <<>>, warned |-> FALSE, exit_status |-> -1]

(***************************************************************************)
(* analyze_doses (lines 197-267)                                           *)
(***************************************************************************)
\* float(): a decimal number as an integer count of thousandths.
Scale == 1000

\* str.strip().
RECURSIVE LStrip(_)
LStrip(str) == IF str # <<>> /\ Head(str) \in Whitespace THEN LStrip(Tail(str)) ELSE str
RECURSIVE RStrip(_)
RStrip(str) ==
    IF str # <<>> /\ str[Len(str)] \in Whitespace
    THEN RStrip(SubSeq(str, 1, Len(str) - 1))
    ELSE str
Strip(str) == RStrip(LStrip(str))

\* str.replace(",", "").
IsNoComma(c) == c # ","
RemoveCommas(str) == SelectSeq(str, IsNoComma)

\* The length of the longest run of digits, of whitespace, of unit characters
\* that starts at position i.
RECURSIVE DigitRun(_, _)
DigitRun(str, i) == IF i <= Len(str) /\ IsDigit(str[i]) THEN 1 + DigitRun(str, i + 1) ELSE 0
RECURSIVE SpaceRun(_, _)
SpaceRun(str, i) == IF i <= Len(str) /\ str[i] \in Whitespace THEN 1 + SpaceRun(str, i + 1) ELSE 0
RECURSIVE UnitRun(_, _)
UnitRun(str, i) == IF i <= Len(str) /\ IsUnitChar(str[i]) THEN 1 + UnitRun(str, i + 1) ELSE 0

\* The digits d as a whole number, and as the thousandths of a fraction.
RECURSIVE IntVal(_)
IntVal(d) == IF d = <<>> THEN 0 ELSE 10 * IntVal(SubSeq(d, 1, Len(d) - 1)) + DigitVal(d[Len(d)])
RECURSIVE FracVal(_, _)
FracVal(d, weight) ==
    IF d = <<>> THEN 0 ELSE DigitVal(Head(d)) * (weight \div 10) + FracVal(Tail(d), weight \div 10)

\* Lines 200-207: re.match(r'(\d+(?:\.\d+)?)\s*([a-zµ]+)', d_str) on the
\* stripped, lower-cased string without commas; <<>> when there is no match,
\* else the one pair (val, unit).  The match is followed group by group: ni
\* digits, a point with nf digits if there are any, whitespace, nu unit
\* characters from position unitStart.
MatchGroups(d_str, ni, nf, unitStart, nu) ==
    IF ni > 0 /\ nu > 0
    THEN <<[val |-> IntVal(SubSeq(d_str, 1, ni)) * Scale
                      + FracVal(SubSeq(d_str, ni + 2, ni + 1 + nf), Scale),
            unit |-> SubSeq(d_str, unitStart, unitStart + nu - 1)]>>
    ELSE <<>>
MatchUnit(d_str, ni, nf, unitStart) ==
    MatchGroups(d_str, ni, nf, unitStart, UnitRun(d_str, unitStart))
MatchSpace(d_str, ni, nf, numEnd) ==
    MatchUnit(d_str, ni, nf, numEnd + SpaceRun(d_str, numEnd + 1) + 1)
MatchFraction(d_str, ni, nf) ==
    MatchSpace(d_str, ni, nf, IF nf > 0 THEN ni + 1 + nf ELSE ni)
MatchNumber(d_str, ni) ==
    MatchFraction(d_str, ni,
                  IF ni + 1 <= Len(d_str) /\ d_str[ni + 1] = "." THEN DigitRun(d_str, ni + 2) ELSE 0)
Match(d_str) == MatchNumber(d_str, DigitRun(d_str, 1))
ParseDose(d) == Match(RemoveCommas(Lower(Strip(d))))

\* Lines 198-207.
RECURSIVE ParseAll(_)
ParseAll(doses) == IF doses = <<>> THEN <<>> ELSE ParseDose(Head(doses)) \o ParseAll(Tail(doses))

\* Variant: on a tie the unit that was seen last is taken.
MostCommonUnitLast(parsed) ==
    LET last == CHOOSE i \in DOMAIN parsed :
                    /\ \A j \in DOMAIN parsed :
                           Cardinality({k \in DOMAIN parsed : parsed[k].unit = parsed[j].unit})
                               <= Cardinality({k \in DOMAIN parsed : parsed[k].unit = parsed[i].unit})
                    /\ \A j \in (i + 1)..Len(parsed) :
                           Cardinality({k \in DOMAIN parsed : parsed[k].unit = parsed[j].unit})
                               < Cardinality({k \in DOMAIN parsed : parsed[k].unit = parsed[i].unit})
    IN  parsed[last].unit

\* Lines 212-215: max(unit_counts, key=unit_counts.get) is the first key, in
\* the order the units were first seen, whose count is the largest.
UnitCount(parsed, u) == Cardinality({i \in DOMAIN parsed : parsed[i].unit = u})
MostCommonUnit(parsed) ==
    LET first == CHOOSE i \in DOMAIN parsed :
                     /\ \A j \in DOMAIN parsed :
                            UnitCount(parsed, parsed[j].unit) <= UnitCount(parsed, parsed[i].unit)
                     /\ \A j \in 1..(i - 1) :
                            UnitCount(parsed, parsed[j].unit) < UnitCount(parsed, parsed[i].unit)
    IN  parsed[first].unit

\* Variant: the values are left in input order.
Unsorted(vals) == vals

\* list.sort() (line 218).
RECURSIVE Insert(_, _)
Insert(sorted, v) ==
    IF sorted = <<>> THEN <<v>>
    ELSE IF v < Head(sorted) THEN <<v>> \o sorted
    ELSE <<Head(sorted)>> \o Insert(Tail(sorted), v)
RECURSIVE Sorted(_)
Sorted(vals) == IF vals = <<>> THEN <<>> ELSE Insert(Sorted(Tail(vals)), Head(vals))

\* Variant: the values of every unit are taken.
RECURSIVE ValuesOfAnyUnit(_, _)
ValuesOfAnyUnit(parsed, u) ==
    IF parsed = <<>> THEN <<>> ELSE <<Head(parsed).val>> \o ValuesOfAnyUnit(Tail(parsed), u)

\* Line 217.
RECURSIVE ValuesOf(_, _)
ValuesOf(parsed, u) ==
    IF parsed = <<>> THEN <<>>
    ELSE (IF Head(parsed).unit = u THEN <<Head(parsed).val>> ELSE <<>>) \o ValuesOf(Tail(parsed), u)

\* Variant: every sample is an entry of its own.
DistributionPerSample(valid_doses, unit) ==
    [i \in DOMAIN valid_doses |-> [val |-> valid_doses[i], unit |-> unit, n |-> 1]]

\* Lines 221-227: the distinct values in ascending order, each with its
\* frequency and the unit.
RECURSIVE Distribution(_, _)
Distribution(valid_doses, unit) ==
    IF valid_doses = <<>> THEN <<>>
    ELSE LET v == Head(valid_doses)
             n == Cardinality({i \in DOMAIN valid_doses : valid_doses[i] = v})
         IN  <<[val |-> v, unit |-> unit, n |-> n]>>
                 \o Distribution(SubSeq(valid_doses, n + 1, Len(valid_doses)), unit)

\* The band strings: "", "Unknown", f"{v} {unit}", f"{start}-{end} {unit}",
\* f"{p90}+ {unit}".
Blank == [kind |-> "", lo |-> 0, hi |-> 0, unit |-> <<>>]
Unknown == [kind |-> "Unknown", lo |-> 0, hi |-> 0, unit |-> <<>>]
Single(v, unit) == [kind |-> "single", lo |-> v, hi |-> v, unit |-> unit]
Span(start, end, unit) == [kind |-> "range", lo |-> start, hi |-> end, unit |-> unit]
Plus(v, unit) == [kind |-> "plus", lo |-> v, hi |-> v, unit |-> unit]

\* Variant: the two endpoints are always written.
fmtAsRange(start, end, unit) == Span(start, end, unit)

\* Lines 243-244.
fmt(start, end, unit) == IF start = end THEN Single(start, unit) ELSE Span(start, end, unit)

\* Variant: the index is rounded up.
get_p_ceil(valid_doses, tenths) ==
    LET count == Len(valid_doses)
        idx == (count * tenths + 9) \div 10
    IN  valid_doses[(IF idx < count - 1 THEN idx ELSE count - 1) + 1]

\* A positive double: its significand of 53 bits, in limbs of 16 bits from the
\* least significant one, and its binary exponent; the value is sig / 2^exp.
Limb == 65536

RECURSIVE Pow2(_)
Pow2(n) == IF n <= 0 THEN 1 ELSE 2 * Pow2(n - 1)

RECURSIVE BitLen(_)
BitLen(n) == IF n = 0 THEN 0 ELSE 1 + BitLen(n \div 2)

\* The number of significant bits of a number given in limbs.
RECURSIVE BitsOf(_)
BitsOf(limbs) ==
    IF limbs = <<>> THEN 0
    ELSE IF limbs[Len(limbs)] = 0 THEN BitsOf(SubSeq(limbs, 1, Len(limbs) - 1))
    ELSE 16 * (Len(limbs) - 1) + BitLen(limbs[Len(limbs)])

\* sig * count + carry, limb by limb.
RECURSIVE MulLimbs(_, _, _)
MulLimbs(sig, count, carry) ==
    IF sig = <<>> THEN <<carry>>
    ELSE <<(Head(sig) * count + carry) % Limb>>
             \o MulLimbs(Tail(sig), count, (Head(sig) * count + carry) \div Limb)

\* limbs + n, for a small n.
RECURSIVE AddLimbs(_, _)
AddLimbs(limbs, n) ==
    IF limbs = <<>> THEN <<>>
    ELSE <<(Head(limbs) + n) % Limb>> \o AddLimbs(Tail(limbs), (Head(limbs) + n) \div Limb)

\* Round to nearest, ties to even: the bits below `unit` are `low`, the bit
\* at `unit` is `lsb`.
RoundAt(limbs, low, unit, lsb) ==
    AddLimbs(<<limbs[1] - low>> \o Tail(limbs),
             IF 2 * low > unit \/ (2 * low = unit /\ lsb = 1) THEN unit ELSE 0)

\* The s lowest bits (s < 16) are rounded away.
RoundLimbs(limbs, s) ==
    IF s <= 0 THEN limbs
    ELSE RoundAt(limbs, limbs[1] % Pow2(s), Pow2(s), (limbs[1] \div Pow2(s)) % 2)

\* The literals 0.10, 0.30, 0.70 and 0.90 of lines 256-259 are the doubles
\* nearest to them: 7205759403792794 / 2^56, 5404319552844595 / 2^54,
\* 6305039478318694 / 2^53 and 8106479329266893 / 2^53.
Double(tenths) ==
    CASE tenths = 1 -> [sig |-> <<39322, 39321, 39321, 25>>, exp |-> 56]
      [] tenths = 3 -> [sig |-> <<13107, 13107, 13107, 19>>, exp |-> 54]
      [] tenths = 7 -> [sig |-> <<26214, 26214, 26214, 22>>, exp |-> 53]
      [] tenths = 9 -> [sig |-> <<52429, 52428, 52428, 28>>, exp |-> 53]

\* count * pct in double precision: the exact product, rounded to 53 bits.
RoundProduct(product, exp) ==
    [sig |-> RoundLimbs(product, BitsOf(product) - 53), exp |-> exp]
FloatMul(count, d) == RoundProduct(MulLimbs(d.sig, count, 0), d.exp)

\* int(): the whole part of a positive double below 2^31 whose exponent is
\* at least 48.
IntOf(f) == (f.sig[5] * Limb + f.sig[4]) \div Pow2(f.exp - 48)

\* Lines 253-254 with pct in tenths: valid_doses[min(int(count * pct), count-1)].
get_p(valid_doses, tenths) ==
    LET count == Len(valid_doses)
        idx == IntOf(FloatMul(count, Double(tenths)))
    IN  valid_doses[(IF idx < count - 1 THEN idx ELSE count - 1) + 1]

\* Variant: Dangerous starts as "Unknown", too.
NewRangesDangerousUnknown(stats) ==
    [Threshold |-> Blank, Light |-> Blank, Common |-> Blank, Strong |-> Blank,
     Heavy |-> Blank, Dangerous |-> Unknown, Fatal |-> Unknown, stats |-> stats]

\* Lines 230-233.
NewRanges(stats) ==
    [Threshold |-> Blank, Light |-> Blank, Common |-> Blank, Strong |-> Blank,
     Heavy |-> Blank, Dangerous |-> Blank, Fatal |-> Unknown, stats |-> stats]

\* Variant: Light and Strong are written whatever their endpoints.
percentile_bands_unguarded(ranges, lowest, unit, p10, p30, p70, p90) ==
    [ranges EXCEPT
        !.Threshold = IF lowest <= p10 THEN fmt(lowest, p10, unit) ELSE Blank,
        !.Light = fmt(p10, p30, unit),
        !.Common = IF p70 >= p30 THEN fmt(p30, p70, unit) ELSE Blank,
        !.Strong = fmt(p70, p90, unit),
        !.Heavy = Plus(p90, unit)]

\* Lines 261-265: the bands of five or more values, from the smallest value
\* and the four percentiles.
percentile_bands(ranges, lowest, unit, p10, p30, p70, p90) ==
    [ranges EXCEPT
        !.Threshold = IF lowest <= p10 THEN fmt(lowest, p10, unit) ELSE Blank,
        !.Light = IF p30 > p10 THEN fmt(p10, p30, unit) ELSE Blank,
        !.Common = IF p70 >= p30 THEN fmt(p30, p70, unit) ELSE Blank,
        !.Strong = IF p90 > p70 THEN fmt(p70, p90, unit) ELSE Blank,
        !.Heavy = Plus(p90, unit)]

\* Lines 236-267: the bands by the number of values.
analyze_count(ranges, valid_doses, unit, count) ==
    IF count = 0 THEN <<>>
    ELSE IF count = 1
    THEN <<[ranges EXCEPT !.Common = Single(valid_doses[1], unit)]>>
    ELSE IF count < 5
    THEN <<[ranges EXCEPT !.Common = fmt(valid_doses[1], valid_doses[count], unit)]>>
    ELSE <<percentile_bands(ranges, valid_doses[1], unit,
                            get_p(valid_doses, 1), get_p(valid_doses, 3),
                            get_p(valid_doses, 7), get_p(valid_doses, 9))>>

\* Lines 219-233: the statistics of the values of the chosen unit.
analyze_valid(valid_doses, unit) ==
    analyze_count(NewRanges([total_reports |-> Len(valid_doses),
                             distribution |-> Distribution(valid_doses, unit)]),
                  valid_doses, unit, Len(valid_doses))

\* Lines 209-218: None without a parsed dose, else the values of the most
\* common unit, sorted.
analyze_unit(parsed, unit) == analyze_valid(Sorted(ValuesOf(parsed, unit)), unit)
analyze_parsed(parsed) ==
    IF parsed = <<>> THEN <<>> ELSE analyze_unit(parsed, MostCommonUnit(parsed))

\* Lines 197-267.  The result is a sequence: <<>> for None, else the one
\* `ranges` dictionary.
analyze_doses(doses) == analyze_parsed(ParseAll(doses))

(***************************************************************************)
(* extract_doses_from_text (lines 149-162)                                 *)
(***************************************************************************)
\* Regular expressions as re matches them, by backtracking: matching an
\* expression from a state (the position reached, the spans of the groups)
\* gives the states in which it can end, in the order in which the matcher
\* tries them; the match that is found is the first one.
Lit(str) == [t |-> "lit", s |-> str]
Run(S, min, lazy) == [t |-> "run", S |-> S, min |-> min, lazy |-> lazy]
Cat(parts) == [t |-> "cat", parts |-> parts]
Alt(parts) == [t |-> "alt", parts |-> parts]
Opt(of) == [t |-> "opt", of |-> of]
Group(n, of) == [t |-> "group", n |-> n, of |-> of]
EndOfString == [t |-> "end"]

\* \d, \s, and [A-Za-z0-9,\-\s].
DigitSet == {DigitChars[i] : i \in DOMAIN DigitChars}
LetterSet == {UpperChars[i] : i \in DOMAIN UpperChars} \cup {LowerChars[i] : i \in DOMAIN LowerChars}
NameSet == LetterSet \cup DigitSet \cup {",", "-"} \cup Whitespace

\* re.IGNORECASE: a literal matches whatever the case of the letters.
LitAt(str, text, pos) ==
    /\ pos + Len(str) - 1 <= Len(text)
    /\ \A i \in DOMAIN str : LowerChar(text[pos + i - 1]) = LowerChar(str[i])

\* The length of the longest run of characters of S from pos.
RECURSIVE RunLen(_, _, _)
RunLen(S, text, pos) ==
    IF pos <= Len(text) /\ text[pos] \in S THEN 1 + RunLen(S, text, pos + 1) ELSE 0

\* x+, x*, x+?: the ends of a run of at most `longest` characters; a greedy
\* run tries the longest first, a lazy one the shortest.
RunEnds(st, longest, min, lazy) ==
    [k \in 1..(longest - min + 1) |->
        [st EXCEPT !.pos = st.pos + (IF lazy THEN min + k - 1 ELSE longest - k + 1)]]

\* (...): group n spans from `from` to the position reached.
Captured(ends, n, from) ==
    [i \in DOMAIN ends |-> [ends[i] EXCEPT !.groups[n] = <<from, ends[i].pos - 1>>]]

\* $ without re.MULTILINE: the end of the string, or the newline that ends it.
AtEnd(text, pos) == pos = Len(text) + 1 \/ (pos = Len(text) /\ text[pos] = "\n")

RECURSIVE MatchAt(_, _, _)
RECURSIVE MatchEach(_, _, _)
RECURSIVE MatchSeq(_, _, _)
RECURSIVE MatchAlt(_, _, _)
MatchEach(re, text, sts) ==
    IF sts = <<>> THEN <<>> ELSE MatchAt(re, text, Head(sts)) \o MatchEach(re, text, Tail(sts))
MatchSeq(parts, text, sts) ==
    IF parts = <<>> THEN sts ELSE MatchSeq(Tail(parts), text, MatchEach(Head(parts), text, sts))
MatchAlt(parts, text, st) ==
    IF parts = <<>> THEN <<>> ELSE MatchAt(Head(parts), text, st) \o MatchAlt(Tail(parts), text, st)
MatchAt(re, text, st) ==
    CASE re.t = "lit" ->
             IF LitAt(re.s, text, st.pos) THEN <<[st EXCEPT !.pos = @ + Len(re.s)]>> ELSE <<>>
      [] re.t = "run" -> RunEnds(st, RunLen(re.S, text, st.pos), re.min, re.lazy)
      [] re.t = "cat" -> MatchSeq(re.parts, text, <<st>>)
      [] re.t = "alt" -> MatchAlt(re.parts, text, st)
      [] re.t = "opt" -> MatchAt(re.of, text, st) \o <<st>>
      [] re.t = "group" -> Captured(MatchAt(re.of, text, st), re.n, st.pos)
      [] re.t = "end" -> IF AtEnd(text, st.pos) THEN <<st>> ELSE <<>>

\* Line 152:
\* (\d+(?:\.\d+)?)\s*(mg|g|ug|µg|ml|drops?|capsules?)\s*(oral|IM|...)\s*
\* ([A-Za-z0-9,\-\s]+?)(?:\s*\(|$)
NumberRe == Cat(<<Run(DigitSet, 1, FALSE), Opt(Cat(<<Lit(<<".">>), Run(DigitSet, 1, FALSE)>>))>>)
UnitRe ==
    Alt(<< Lit(<<"m", "g">>),
           Lit(<<"g">>),
           Lit(<<"u", "g">>),
           Lit(<<"µ", "g">>),
           Lit(<<"m", "l">>),
           Cat(<<Lit(<<"d", "r", "o", "p">>), Opt(Lit(<<"s">>))>>),
           Cat(<<Lit(<<"c", "a", "p", "s", "u", "l", "e">>), Opt(Lit(<<"s">>))>>) >>)
MethodRe ==
    Alt(<< Lit(<<"o", "r", "a", "l">>),
           Lit(<<"I", "M">>),
           Lit(<<"I", "V">>),
           Lit(<<"S", "C">>),
           Lit(<<"i", "n", "t", "r", "a", "n", "a", "s", "a", "l">>),
           Lit(<<"s", "m", "o", "k", "e", "d">>),
           Lit(<<"i", "n", "s", "u", "f", "f", "l", "a", "t", "e", "d">>),
           Lit(<<"r", "e", "c", "t", "a", "l">>),
           Lit(<<"s", "u", "b", "c", "u", "t", "a", "n", "e", "o", "u", "s">>),
           Lit(<<"i", "n", "t", "r", "a", "v", "e", "n", "o", "u", "s">>),
           Lit(<<"b", "u", "c", "c", "a", "l">>),
           Lit(<<"s", "u", "b", "l", "i", "n", "g", "u", "a", "l">>),
           Lit(<<"i", "n", "t", "r", "a", "m", "u", "s", "c", "u", "l", "a", "r">>),
           Lit(<<"i", "n", "t", "r", "a", "v", "e", "n", "o", "u", "s">>),
           Lit(<<"s", "u", "b", "c", "u", "t", "a", "n", "e", "o", "u", "s">>) >>)
dose_pattern ==
    Cat(<< Group(1, NumberRe), Run(Whitespace, 0, FALSE),
           Group(2, UnitRe), Run(Whitespace, 0, FALSE),
           Group(3, MethodRe), Run(Whitespace, 0, FALSE),
           Group(4, Run(NameSet, 1, TRUE)),
           Alt(<<Cat(<<Run(Whitespace, 0, FALSE), Lit(<<"(">>)>>), EndOfString>>) >>)

\* re.findall: the leftmost match from each position, the scan going on
\* from the end of the match (a match of this pattern is never empty).
StartAt(pos) == [pos |-> pos, groups |-> [n \in 1..4 |-> <<pos, pos - 1>>]]
RECURSIVE FindFrom(_, _, _)
FoundOrNext(re, text, pos, ends) ==
    IF ends = <<>> THEN FindFrom(re, text, pos + 1)
    ELSE <<Head(ends)>> \o FindFrom(re, text, Head(ends).pos)
FindFrom(re, text, pos) ==
    IF pos > Len(text) THEN <<>> ELSE FoundOrNext(re, text, pos, MatchAt(re, text, StartAt(pos)))
findall(re, text) == FindFrom(re, text, 1)

\* Variant: the substance is taken as it was matched.
Uncollapsed(str) == str

\* re.sub(r'\s+', ' ', ...): each run of whitespace becomes one space.
RECURSIVE Collapsed(_)
Collapsed(str) ==
    IF str = <<>> THEN <<>>
    ELSE IF Head(str) \in Whitespace
    THEN <<" ">> \o Collapsed(SubSeq(str, RunLen(Whitespace, str, 1) + 1, Len(str)))
    ELSE <<Head(str)>> \o Collapsed(Tail(str))

\* re.sub(r'[^\w\s,-]', '', ...).
IsNameChar(c) == c \in NameSet \cup {"_"}

\* Lines 156-161: the record of one match.
GroupText(text, m, n) == SubSeq(text, m.groups[n][1], m.groups[n][2])
DoseRecord(text, m) ==
    [substance |-> SelectSeq(Collapsed(Strip(GroupText(text, m, 4))), IsNameChar),
     dose |-> GroupText(text, m, 1) \o <<" ">> \o GroupText(text, m, 2),
     method |-> Lower(GroupText(text, m, 3))]

\* Lines 149-162.  The method is kept as its characters.
DoseRecords(text, found) == [i \in DOMAIN found |-> DoseRecord(text, found[i])]
extract_doses_from_text(text) == DoseRecords(text, findall(dose_pattern, text))

(***************************************************************************)
(* Futures                                                                 *)
(***************************************************************************)
NoResult == [kind |-> "none", urls |-> <<>>]
CatTask(st, res) == [st |-> st, res |-> res, resp |-> NoResponse]

NewReportTask ==
    [st |-> "pending", resp |-> NoResponse, results |-> <<>>, status |-> "",
     data |-> EmptyMap, issued |-> <<>>, ret |-> ""]

RTerminal == {"done", "failed", "blocked"}
CSettled == {"finished", "cancelled"}

CatRunning == {c \in DOMAIN cfut : cfut[c].st = "running"}
RepRunning == {u \in DOMAIN rfut : rfut[u].st \notin RTerminal \cup {"pending"}}
InUpdate == {u \in DOMAIN rfut : rfut[u].st \in {"upd_loaded", "upd_open"}}

(***************************************************************************)
(* Initial state: before the first invocation, nothing has been persisted  *)
(***************************************************************************)
Fresh ==
    /\ opc = "start"
    /\ progress = EmptyMap
    /\ blocked = FALSE
    /\ cfut = EmptyMap
    /\ cyielded = {}
    /\ all_report_urls = {}
    /\ rfut = EmptyMap
    /\ ledgerFile = MissingLedger
    /\ store = EmptyMap
    /\ all_doses = EmptyMap
    /\ repSentinel = FALSE
    /\ overlapped = FALSE
    /\ lastSave = NoSave
    /\ final = NoFinal

\* Both input files exist.
Init ==
    /\ Fresh
    /\ inputs = [links |-> TRUE, drugs |-> TRUE]
    /\ call = NoCall

(***************************************************************************)
(* main(), category phase                                                  *)
(***************************************************************************)
\* Variant: a ledger that does not parse ends the run.
StartUnlessCorrupt ==
    /\ opc = "start"
    /\ ledgerFile.kind # "corrupt"
    /\ progress' = load_progress(ledgerFile)
    /\ cfut' = [c \in CategoryUrls(load_erowid_links_json(inputs.links)) |->
                  CatTask("queued", NoResult)]
    /\ opc' = "cat_loop"
    /\ UNCHANGED <<blocked, cyielded, all_report_urls, rfut,
                   ledgerFile, store, all_doses, repSentinel, overlapped, lastSave, inputs, final, call>>

\* Lines 274-350: load the ledger, gather the category URLs, submit them all.
Start ==
    /\ opc = "start"
    /\ progress' = load_progress(ledgerFile)
    /\ cfut' = [c \in CategoryUrls(load_erowid_links_json(inputs.links)) |->
                  CatTask("queued", NoResult)]
    /\ opc' = "cat_loop"
    /\ UNCHANGED <<blocked, cyielded, all_report_urls, rfut,
                   ledgerFile, store, all_doses, repSentinel, overlapped, lastSave, inputs, final, call>>

\* A free worker thread takes a queued get_report_urls call.
CatStart(c) ==
    /\ c \in DOMAIN cfut
    /\ cfut[c].st = "queued"
    /\ Cardinality(CatRunning) < MAX_WORKERS
    /\ cfut' = [cfut EXCEPT ![c].st = "running"]
    /\ UNCHANGED <<opc, progress, blocked, cyielded, all_report_urls, rfut, ledgerFile, store, all_doses, repSentinel, overlapped, lastSave, inputs, final, call>>

CatFinish(c, resp) ==
    /\ c \in DOMAIN cfut
    /\ cfut[c].st = "running"
    /\ cfut' = [cfut EXCEPT ![c] = [st |-> "finished",
                                    res |-> get_report_urls(resp, PageLinks(c)),
                                    resp |-> resp]]
    /\ UNCHANGED <<opc, progress, blocked, cyielded, all_report_urls, rfut, ledgerFile, store, all_doses, repSentinel, overlapped, lastSave, inputs, final, call>>

\* Lines 126-128: status 403 or the block marker in the first 500 characters.
CatBlocked(c, resp) == Outcome(resp) = "BLOCKED" /\ CatFinish(c, resp)

\* Lines 145-147: any exception gives [].
CatError(c, resp) == Outcome(resp) = "error" /\ CatFinish(c, resp)

\* Lines 130-144.
CatOk(c, resp) == Outcome(resp) = "ok" /\ CatFinish(c, resp)

\* Variant: the whole list is merged.
Untruncated(s) == s

\* res[:MAX_REPORTS_PER_CATEGORY] (line 361).
Truncate(s) == SubSeq(s, 1, IF Len(s) < MAX_REPORTS_PER_CATEGORY THEN Len(s) ELSE MAX_REPORTS_PER_CATEGORY)

Range(s) == {s[i] : i \in DOMAIN s}

\* Variant: a future that finished is merged after the loop was left, too.
CatYieldAfterBreak(c) ==
    /\ opc \in {"cat_loop", "cat_join"}
    /\ c \in DOMAIN cfut
    /\ c \notin cyielded
    /\ cfut[c].st = "finished"
    /\ cyielded' = cyielded \cup {c}
    /\ cfut' = [cfut EXCEPT ![c].resp = NoResponse]
    /\ IF cfut[c].res.kind = "BLOCKED"
       THEN /\ blocked' = TRUE
            /\ opc' = IF opc = "cat_loop" THEN "cat_blocked" ELSE opc
            /\ UNCHANGED all_report_urls
       ELSE /\ all_report_urls' = all_report_urls \cup Range(Truncate(cfut[c].res.urls))
            /\ UNCHANGED <<blocked, opc>>
    /\ UNCHANGED <<progress, rfut, ledgerFile, store,
                   all_doses, repSentinel, overlapped, lastSave, inputs, final, call>>

\* Lines 353-365, one iteration: as_completed yields a finished future.  (The
\* response the task received is not kept any longer.)
CatYield(c) ==
    /\ opc = "cat_loop"
    /\ c \in DOMAIN cfut
    /\ c \notin cyielded
    /\ cfut[c].st = "finished"
    /\ cyielded' = cyielded \cup {c}
    /\ cfut' = [cfut EXCEPT ![c].resp = NoResponse]
    /\ IF cfut[c].res.kind = "BLOCKED"
       THEN /\ blocked' = TRUE
            /\ opc' = "cat_blocked"
            /\ UNCHANGED all_report_urls
       ELSE /\ all_report_urls' = all_report_urls \cup Range(Truncate(cfut[c].res.urls))
            /\ UNCHANGED <<blocked, opc>>
    /\ UNCHANGED <<progress, rfut, ledgerFile, store,
                   all_doses, repSentinel, overlapped, lastSave, inputs, final, call>>

\* Variant: the loop breaks without cancelling the queued futures.
CatShutdownNoCancel ==
    /\ opc = "cat_blocked"
    /\ opc' = "cat_join"
    /\ UNCHANGED <<progress, blocked, cfut, cyielded, all_report_urls, rfut,
                   ledgerFile, store, all_doses, repSentinel, overlapped, lastSave, inputs, final, call>>

\* Line 357-358: executor.shutdown(wait=False, cancel_futures=True); break.
CatShutdown ==
    /\ opc = "cat_blocked"
    /\ cfut' = [c \in DOMAIN cfut |->
                  IF cfut[c].st = "queued" THEN CatTask("cancelled", NoResult) ELSE cfut[c]]
    /\ opc' = "cat_join"
    /\ UNCHANGED <<progress, blocked, cyielded, all_report_urls, rfut, ledgerFile, store, all_doses, repSentinel, overlapped, lastSave, inputs, final, call>>

\* Line 353: as_completed is exhausted, the loop ends.
CatLoopEnd ==
    /\ opc = "cat_loop"
    /\ cyielded = DOMAIN cfut
    /\ opc' = "cat_join"
    /\ UNCHANGED <<progress, blocked, cfut, cyielded, all_report_urls, rfut, ledgerFile, store, all_doses, repSentinel, overlapped, lastSave, inputs, final, call>>

\* Variant: every URL the ledger holds is skipped, whatever its status.
urls_to_scrape_unseen(urls, prog) == {u \in urls : u \notin DOMAIN prog}

\* Line 373: the URLs whose loaded ledger entry is not "done".
urls_to_scrape(urls, prog) == {u \in urls : Get(prog, u) # "done"}

\* The exit of the first `with` (shutdown(wait=True) joins the workers), then
\* lines 367-381: filter against the ledger and submit the report tasks; the
\* name `futures` is rebound, the category futures are gone, and `progress`
\* is not read again.
CatJoinAndSubmit ==
    /\ opc = "cat_join"
    /\ \A c \in DOMAIN cfut : cfut[c].st \in CSettled
    /\ rfut' = [u \in urls_to_scrape(all_report_urls, progress) |-> NewReportTask]
    /\ cfut' = EmptyMap
    /\ cyielded' = {}
    /\ progress' = EmptyMap
    /\ opc' = "rep_loop"
    /\ UNCHANGED <<blocked, all_report_urls, ledgerFile, store, all_doses, repSentinel, overlapped, lastSave, inputs, final, call>>

(***************************************************************************)
(* process_report (lines 164-191), one worker thread per running task      *)
(***************************************************************************)
\* A free worker thread takes a queued process_report call (lines 166-170:
\* the politeness delay, then the request is in flight).
RepStart(u) ==
    /\ u \in DOMAIN rfut
    /\ rfut[u].st = "pending"
    /\ Cardinality(RepRunning) < MAX_WORKERS
    /\ rfut' = [rfut EXCEPT ![u].st = "fetching"]
    /\ UNCHANGED <<opc, progress, blocked, cfut, cyielded, all_report_urls, ledgerFile, store, all_doses, repSentinel, overlapped, lastSave, inputs, final, call>>

\* update_progress, lines 89-90: data = load_progress(); data[url] = status.
BeginUpdate(u, resp, status, ret) ==
    /\ rfut' = [rfut EXCEPT ![u].st = "upd_loaded",
                            ![u].resp = resp,
                            ![u].status = status,
                            ![u].data = SetKey(load_progress(ledgerFile), u, status),
                            ![u].issued = Append(@, status),
                            ![u].ret = ret]
    /\ overlapped' = (overlapped \/ InUpdate \ {u} # {})

\* Lines 172-174: the response is a block page; update_progress(url, "failed_blocked").
RepFetchBlocked(u, resp) ==
    /\ u \in DOMAIN rfut
    /\ rfut[u].st = "fetching"
    /\ Outcome(resp) = "BLOCKED"
    /\ BeginUpdate(u, resp, "failed_blocked", "BLOCKED")
    /\ UNCHANGED <<opc, progress, blocked, cfut, cyielded, all_report_urls, ledgerFile, store, all_doses, repSentinel, lastSave, inputs, final, call>>

\* Variant: the exception handler returns [] without a ledger update.
RepFetchErrorSilent(u, resp) ==
    /\ u \in DOMAIN rfut
    /\ rfut[u].st = "fetching"
    /\ Outcome(resp) = "error"
    /\ rfut' = [rfut EXCEPT ![u].st = "failed", ![u].ret = "empty"]
    /\ UNCHANGED <<opc, progress, blocked, cfut, cyielded, all_report_urls,
                   ledgerFile, store, all_doses, repSentinel, overlapped, lastSave, inputs, final, call>>

\* Variant: the exception is raised after the result file was opened.
RepFetchErrorAfterOpen(u, resp) ==
    /\ u \in DOMAIN rfut
    /\ rfut[u].st = "fetching"
    /\ Outcome(resp) = "error"
    /\ BeginUpdate(u, resp, "failed", "empty")
    /\ store' = SaveOpen(store, u)
    /\ UNCHANGED <<opc, progress, blocked, cfut, cyielded, all_report_urls, ledgerFile, all_doses, repSentinel, lastSave, inputs, final, call>>

\* Variant: the exception is not caught; it ends the run.
RepFetchErrorUncaught(u, resp) ==
    /\ u \in DOMAIN rfut
    /\ rfut[u].st = "fetching"
    /\ Outcome(resp) = "error"
    /\ rfut' = [rfut EXCEPT ![u].st = "failed", ![u].ret = "empty"]
    /\ opc' = "crashed"
    /\ UNCHANGED <<progress, blocked, cfut, cyielded, all_report_urls,
                   ledgerFile, store, all_doses, repSentinel, overlapped, lastSave, inputs, final, call>>

\* Lines 188-191: the request or the parse raised; update_progress(url, "failed").
RepFetchError(u, resp) ==
    /\ u \in DOMAIN rfut
    /\ rfut[u].st = "fetching"
    /\ Outcome(resp) = "error"
    /\ BeginUpdate(u, resp, "failed", "empty")
    /\ UNCHANGED <<opc, progress, blocked, cfut, cyielded, all_report_urls, ledgerFile, store, all_doses, repSentinel, lastSave, inputs, final, call>>

\* Variant: the ledger is updated before the result is saved.
RepFetchOkDoneFirst(u, resp, res) ==
    /\ u \in DOMAIN rfut
    /\ rfut[u].st = "fetching"
    /\ Outcome(resp) = "ok"
    /\ BeginUpdate(u, resp, "done", "results")
    /\ UNCHANGED <<opc, progress, blocked, cfut, cyielded, all_report_urls, ledgerFile, store, all_doses, repSentinel, lastSave, inputs, final, call>>

\* Lines 176-184 and 104-111: the page parsed, the doses were extracted, and
\* save_temp_report opened dose_<id>.json for writing, which truncates it.
RepFetchOk(u, resp, res) ==
    /\ u \in DOMAIN rfut
    /\ rfut[u].st = "fetching"
    /\ Outcome(resp) = "ok"
    /\ rfut' = [rfut EXCEPT ![u].st = "save_open", ![u].resp = resp, ![u].results = res]
    /\ store' = SaveOpen(store, u)
    /\ UNCHANGED <<opc, progress, blocked, cfut, cyielded, all_report_urls, ledgerFile, all_doses, repSentinel, overlapped, lastSave, inputs, final, call>>

\* Lines 111-112: json.dump and the close of the result file.
RepSaveClose(u) ==
    /\ u \in DOMAIN rfut
    /\ rfut[u].st = "save_open"
    /\ store' \in SaveDump(store, u, rfut[u].results)
    /\ rfut' = [rfut EXCEPT ![u].st = "saved", ![u].resp = NoResponse]
    /\ UNCHANGED <<opc, progress, blocked, cfut, cyielded, all_report_urls, ledgerFile, all_doses, repSentinel, overlapped, lastSave, inputs, final, call>>

\* Line 185: update_progress(url, "done") loads the ledger.
RepUpdLoad(u) ==
    /\ u \in DOMAIN rfut
    /\ rfut[u].st = "saved"
    /\ BeginUpdate(u, NoResponse, "done", "results")
    /\ UNCHANGED <<opc, progress, blocked, cfut, cyielded, all_report_urls, ledgerFile, store, all_doses, repSentinel, lastSave, inputs, final, call>>

\* Line 91: open(PROGRESS_FILE, 'w') truncates the ledger.  (The response is
\* not read again.)
RepUpdOpen(u) ==
    /\ u \in DOMAIN rfut
    /\ rfut[u].st = "upd_loaded"
    /\ ledgerFile' = EmptyLedger
    /\ rfut' = [rfut EXCEPT ![u].st = "upd_open", ![u].resp = NoResponse]
    /\ UNCHANGED <<opc, progress, blocked, cfut, cyielded, all_report_urls, store, all_doses, repSentinel, overlapped, lastSave, inputs, final, call>>

\* The state in which process_report returns: 'BLOCKED' (line 174), the
\* results (line 187) or [] (line 191).
Returned(ret) ==
    CASE ret = "BLOCKED" -> "blocked"
      [] ret = "results" -> "done"
      [] OTHER -> "failed"

\* Line 92 and the return of process_report: the whole mapping is written;
\* the locals of update_progress are gone.
RepUpdClose(u) ==
    /\ u \in DOMAIN rfut
    /\ rfut[u].st = "upd_open"
    /\ ledgerFile' \in LedgerAfterDump(ledgerFile, rfut[u].data)
    /\ rfut' = [rfut EXCEPT ![u].st = Returned(rfut[u].ret),
                            ![u].data = EmptyMap,
                            ![u].status = ""]
    /\ UNCHANGED <<opc, progress, blocked, cfut, cyielded, all_report_urls, store, all_doses, repSentinel, overlapped, lastSave, inputs, final, call>>

(***************************************************************************)
(* main(), report phase and merge                                          *)
(***************************************************************************)
\* Lines 382-390: as_completed yields a finished future whose result is
\* 'BLOCKED', and the loop breaks.  (An iteration over any other result only
\* counts and prints, so it is not a step of the model.)
RepYieldBlocked(u) ==
    /\ opc = "rep_loop"
    /\ u \in DOMAIN rfut
    /\ rfut[u].st \in RTerminal
    /\ rfut[u].ret = "BLOCKED"
    /\ repSentinel' = TRUE
    /\ opc' = "rep_join"
    /\ UNCHANGED <<progress, blocked, cfut, cyielded, all_report_urls, rfut,
                   ledgerFile, store, all_doses, overlapped, lastSave, inputs, final, call>>

\* Line 382: as_completed is exhausted without a 'BLOCKED' result: every
\* future has finished and was yielded.
RepLoopEnd ==
    /\ opc = "rep_loop"
    /\ \A u \in DOMAIN rfut : rfut[u].st \in RTerminal /\ rfut[u].ret # "BLOCKED"
    /\ opc' = "rep_join"
    /\ UNCHANGED <<progress, blocked, cfut, cyielded, all_report_urls, rfut,
                   ledgerFile, store, all_doses, repSentinel, overlapped, lastSave, inputs, final, call>>

\* Variant: the pool is left without waiting for the workers.
RepJoinNoWait ==
    /\ opc = "rep_join"
    /\ opc' = "merge"
    /\ UNCHANGED <<progress, blocked, cfut, cyielded, all_report_urls, rfut,
                   ledgerFile, store, all_doses, repSentinel, overlapped, lastSave, inputs, final, call>>

\* The exit of the second `with`: shutdown(wait=True) returns once the workers
\* have run every submitted task; nothing is cancelled.
RepJoin ==
    /\ opc = "rep_join"
    /\ \A u \in DOMAIN rfut : rfut[u].st \in RTerminal
    /\ opc' = "merge"
    /\ UNCHANGED <<progress, blocked, cfut, cyielded, all_report_urls, rfut, ledgerFile, store, all_doses, repSentinel, overlapped, lastSave, inputs, final, call>>

\* Variant: a record replaces the list of its group instead of extending it.
RECURSIVE AddDosesReplacing(_, _)
AddDosesReplacing(groups, doses) ==
    IF doses = <<>> THEN groups
    ELSE LET item == Head(doses)
             key == <<item.substance, item.method>>
         IN  AddDosesReplacing((key :> <<item.dose>>) @@ groups, Tail(doses))

\* Lines 405-407: the records of one doses list appended to their groups.
RECURSIVE AddDoses(_, _)
AddDoses(groups, doses) ==
    IF doses = <<>> THEN groups
    ELSE LET item == Head(doses)
             key == <<item.substance, item.method>>
             old == IF key \in DOMAIN groups THEN groups[key] ELSE <<>>
         IN  AddDoses((key :> Append(old, item.dose)) @@ groups, Tail(doses))

Orders(S) == {o \in [1..Cardinality(S) -> S] : \A i, j \in DOMAIN o : i # j => o[i] # o[j]}

\* Variant: the loop ends at the first file that does not parse.
RECURSIVE EncounteredUntilMalformed(_, _)
EncounteredUntilMalformed(files, order) ==
    IF order = <<>> THEN <<>>
    ELSE IF files[Head(order)].kind = "ok"
         THEN files[Head(order)].doses \o EncounteredUntilMalformed(files, Tail(order))
         ELSE <<>>

\* Lines 399-410: the records the loop meets, file by file in the order glob
\* returned the files; a file that does not parse is skipped.
RECURSIVE Encountered(_, _)
Encountered(files, order) ==
    IF order = <<>> THEN <<>>
    ELSE (IF files[Head(order)].kind = "ok" THEN files[Head(order)].doses ELSE <<>>)
             \o Encountered(files, Tail(order))

\* Lines 403-407: each record met is appended to its group.
MergeFiles(groups, files, order) == AddDoses(groups, Encountered(files, order))

\* The keys of a dictionary in insertion order: the distinct elements of a
\* sequence in the order of their first occurrence.
RECURSIVE FirstSeen(_, _)
FirstSeen(items, seen) ==
    IF items = <<>> THEN seen
    ELSE FirstSeen(Tail(items), IF Contains(seen, Head(items)) THEN seen ELSE Append(seen, Head(items)))

RECURSIVE MethodsOf(_, _)
MethodsOf(recs, sub) ==
    IF recs = <<>> THEN <<>>
    ELSE (IF Head(recs).substance = sub THEN <<Head(recs).method>> ELSE <<>>)
             \o MethodsOf(Tail(recs), sub)
RECURSIVE SubstancesOf(_)
SubstancesOf(recs) ==
    IF recs = <<>> THEN <<>> ELSE <<Head(recs).substance>> \o SubstancesOf(Tail(recs))

\* Lines 415-419: the methods of one substance whose doses give a result.
RECURSIVE formatted_dose(_, _, _)
formatted_dose(groups, sub, methods) ==
    IF methods = <<>> THEN <<>>
    ELSE LET rng == analyze_doses(groups[<<sub, Head(methods)>>])
         IN  (IF rng # <<>> THEN <<[method |-> Head(methods), rng |-> rng[1]]>> ELSE <<>>)
                 \o formatted_dose(groups, sub, Tail(methods))

\* Variant: a substance is kept also when none of its methods gave a result.
RECURSIVE FormatAllKeepingEmpty(_, _, _)
FormatAllKeepingEmpty(groups, recs, subs) ==
    IF subs = <<>> THEN <<>>
    ELSE LET fd == formatted_dose(groups, Head(subs), FirstSeen(MethodsOf(recs, Head(subs)), <<>>))
         IN  <<[sub |-> Head(subs), formatted_dose |-> fd]>>
                 \o FormatAllKeepingEmpty(groups, recs, Tail(subs))

\* Lines 413-421: the substances in the insertion order of all_doses; recs are
\* the records in the order they were merged.
RECURSIVE FormatAll(_, _, _)
FormatAll(groups, recs, subs) ==
    IF subs = <<>> THEN <<>>
    ELSE LET fd == formatted_dose(groups, Head(subs), FirstSeen(MethodsOf(recs, Head(subs)), <<>>))
         IN  (IF fd # <<>> THEN <<[sub |-> Head(subs), formatted_dose |-> fd]>> ELSE <<>>)
                 \o FormatAll(groups, recs, Tail(subs))
formatted_data(groups, recs) == FormatAll(groups, recs, FirstSeen(SubstancesOf(recs), <<>>))

\* dict[key] = data: a new key goes to the end, an old key keeps its place.
HasKey(dict, key) == \E i \in DOMAIN dict : dict[i].key = key
Put(dict, key, data) ==
    IF HasKey(dict, key)
    THEN [i \in DOMAIN dict |-> IF dict[i].key = key THEN [key |-> key, data |-> data] ELSE dict[i]]
    ELSE Append(dict, [key |-> key, data |-> data])
Lookup(dict, key) == dict[CHOOSE i \in DOMAIN dict : dict[i].key = key].data

\* Lines 424-426.
RECURSIVE normalized_data(_, _)
normalized_data(fdata, dict) ==
    IF fdata = <<>> THEN dict
    ELSE normalized_data(Tail(fdata), Put(dict, normalize(Head(fdata).sub), Head(fdata).formatted_dose))

\* Lines 51-57: lookup[normalize(pname)] = pname.
RECURSIVE drugs_lookup(_, _)
drugs_lookup(order, dict) ==
    IF order = <<>> THEN dict
    ELSE drugs_lookup(Tail(order), Put(dict, normalize(Head(order)), Head(order)))

\* Lines 430-433.
RECURSIVE AddKnown(_, _, _)
AddKnown(out, order, ndata) ==
    IF order = <<>> THEN out
    ELSE LET norm == normalize(Head(order))
         IN  AddKnown(IF HasKey(ndata, norm) THEN Put(out, Head(order), Lookup(ndata, norm)) ELSE out,
                      Tail(order), ndata)

\* Lines 436-452.
RECURSIVE AddUnknown(_, _, _)
AddUnknown(out, fdata, drugs_order) ==
    IF fdata = <<>> THEN out
    ELSE LET sub == Head(fdata).sub
             data == Head(fdata).formatted_dose
             norm_sub == normalize(sub)
             found_in_order == \E i \in DOMAIN drugs_order : normalize(drugs_order[i]) = norm_sub
             lookup == drugs_lookup(drugs_order, <<>>)
             next == IF found_in_order THEN out
                     ELSE IF HasKey(lookup, norm_sub)
                     THEN (IF HasKey(out, Lookup(lookup, norm_sub)) THEN out
                           ELSE Put(out, Lookup(lookup, norm_sub), data))
                     ELSE Put(out, sub, data)
         IN  AddUnknown(next, Tail(fdata), drugs_order)

\* Variant: the labels that match no canonical name come first.
final_output_unknown_first(fdata, drugs_order) ==
    AddKnown(AddUnknown(<<>>, fdata, drugs_order), drugs_order, normalized_data(fdata, <<>>))

\* Lines 424-452.
final_output(fdata, drugs_order) ==
    AddUnknown(AddKnown(<<>>, drugs_order, normalized_data(fdata, <<>>)), fdata, drugs_order)

\* Lines 392-465: the merge, the analysis, the sorted output written to the
\* final result file, the summary; main returns (exit status 0).
Merge ==
    /\ opc = "merge"
    /\ \E order \in Orders(DOMAIN store) :
           /\ all_doses' = MergeFiles(EmptyMap, store, order)
           /\ final' = [written |-> TRUE,
                        entries |-> final_output(formatted_data(all_doses', Encountered(store, order)),
                                                 load_drugs_json(inputs.drugs)),
                        warned |-> blocked,
                        exit_status |-> 0]
    /\ opc' = "done"
    /\ UNCHANGED <<progress, blocked, cfut, cyielded, all_report_urls, rfut,
                   ledgerFile, store, repSentinel, overlapped, lastSave, inputs, call>>

\* The process ends and main() is invoked again, any number of times: only the
\* ledger and the report store persist.
NextRun ==
    /\ opc = "done"
    /\ opc' = "start"
    /\ progress' = EmptyMap
    /\ blocked' = FALSE
    /\ cfut' = EmptyMap
    /\ cyielded' = {}
    /\ all_report_urls' = {}
    /\ rfut' = EmptyMap
    /\ all_doses' = EmptyMap
    /\ repSentinel' = FALSE
    /\ overlapped' = FALSE
    /\ final' = NoFinal
    /\ UNCHANGED <<ledgerFile, store, lastSave, inputs, call>>

Next ==
    \/ Start
    \/ \E c \in all_category_urls : CatStart(c)
    \/ \E c \in all_category_urls : \E resp \in CatResponses : CatBlocked(c, resp)
    \/ \E c \in all_category_urls : \E resp \in CatResponses : CatError(c, resp)
    \/ \E c \in all_category_urls : \E resp \in CatResponses : CatOk(c, resp)
    \/ \E c \in all_category_urls : CatYield(c)
    \/ CatShutdown
    \/ CatLoopEnd
    \/ CatJoinAndSubmit
    \/ \E u \in DOMAIN rfut : RepStart(u)
    \/ \E u \in DOMAIN rfut : \E resp \in Responses(u) : RepFetchBlocked(u, resp)
    \/ \E u \in DOMAIN rfut : \E resp \in Responses(u) : RepFetchError(u, resp)
    \/ \E u \in DOMAIN rfut : \E resp \in Responses(u) :
           \E res \in ExtractionResults(u) : RepFetchOk(u, resp, res)
    \/ \E u \in DOMAIN rfut : RepSaveClose(u)
    \/ \E u \in DOMAIN rfut : RepUpdLoad(u)
    \/ \E u \in DOMAIN rfut : RepUpdOpen(u)
    \/ \E u \in DOMAIN rfut : RepUpdClose(u)
    \/ \E u \in DOMAIN rfut : RepYieldBlocked(u)
    \/ RepLoopEnd
    \/ RepJoin
    \/ Merge
    \/ NextRun

Spec == Init /\ [][Next]_vars

(***************************************************************************)
(* The report store alone: save_temp_report called directly, one call      *)
(* after the other, for report URLs with and without an embedded ID        *)
(***************************************************************************)
StoreUrls ==
    { HrefToUrl(RelHref("7")), HrefToUrl(AbsHref("7")), HrefToUrl(RootHref("8")),
      <<"https://www.erowid.org", "/experiences/", "exp.php?", "ID=">>,
      <<"https://www.erowid.org", "/experiences/", "exp.cgi">> }

StoreDoses == {<<>>, <<Rec1>>, <<Rec1, Rec2>>}

SaveReport(u, doses) ==
    /\ store' \in save_temp_report(store, u, doses)
    /\ lastSave' = [url |-> u, doses |-> doses,
                    again |-> \E k \in DOMAIN store : store[k].url = u]
    /\ UNCHANGED <<opc, progress, blocked, cfut, cyielded, all_report_urls, rfut,
                   ledgerFile, all_doses, repSentinel, overlapped, inputs, final, call>>

NextStore == \E u \in StoreUrls, doses \in StoreDoses : SaveReport(u, doses)

SpecStore == Init /\ [][NextStore]_vars

(***************************************************************************)
(* One run from a fresh installation in which either input file may be     *)
(* missing                                                                 *)
(***************************************************************************)
InitInputs ==
    /\ Fresh
    /\ inputs \in [links : BOOLEAN, drugs : BOOLEAN]
    /\ call = NoCall

NextInputs ==
    \/ Start
    \/ \E c \in all_category_urls : CatStart(c)
    \/ \E c \in all_category_urls : \E resp \in CatResponses : CatBlocked(c, resp)
    \/ \E c \in all_category_urls : \E resp \in CatResponses : CatError(c, resp)
    \/ \E c \in all_category_urls : \E resp \in CatResponses : CatOk(c, resp)
    \/ \E c \in all_category_urls : CatYield(c)
    \/ CatShutdown
    \/ CatLoopEnd
    \/ CatJoinAndSubmit
    \/ \E u \in DOMAIN rfut : RepStart(u)
    \/ \E u \in DOMAIN rfut : \E resp \in Responses(u) : RepFetchBlocked(u, resp)
    \/ \E u \in DOMAIN rfut : \E resp \in Responses(u) : RepFetchError(u, resp)
    \/ \E u \in DOMAIN rfut : \E resp \in Responses(u) :
           \E res \in ExtractionResults(u) : RepFetchOk(u, resp, res)
    \/ \E u \in DOMAIN rfut : RepSaveClose(u)
    \/ \E u \in DOMAIN rfut : RepUpdLoad(u)
    \/ \E u \in DOMAIN rfut : RepUpdOpen(u)
    \/ \E u \in DOMAIN rfut : RepUpdClose(u)
    \/ \E u \in DOMAIN rfut : RepYieldBlocked(u)
    \/ RepLoopEnd
    \/ RepJoin
    \/ Merge

SpecInputs == InitInputs /\ [][NextInputs]_vars

\* One run from a fresh installation with both input files.
SpecRun == Init /\ [][NextInputs]_vars

\* Lines 91 and 93-94: open(PROGRESS_FILE, 'w') raises; update_progress
\* prints the warning and returns with the ledger as it was, and
\* process_report goes on to its return.
RepUpdOpenFails(u) ==
    /\ u \in DOMAIN rfut
    /\ rfut[u].st = "upd_loaded"
    /\ rfut' = [rfut EXCEPT ![u].st = Returned(rfut[u].ret),
                            ![u].resp = NoResponse,
                            ![u].data = EmptyMap,
                            ![u].status = ""]
    /\ UNCHANGED <<opc, progress, blocked, cfut, cyielded, all_report_urls, ledgerFile, store,
                   all_doses, repSentinel, overlapped, lastSave, inputs, final, call>>

\* Lines 92-94: json.dump raises after the file was truncated; the file is
\* left as it is or with a part of the document, and update_progress returns.
RepUpdDumpFails(u) ==
    /\ u \in DOMAIN rfut
    /\ rfut[u].st = "upd_open"
    /\ ledgerFile' \in {ledgerFile, CorruptLedger}
    /\ rfut' = [rfut EXCEPT ![u].st = Returned(rfut[u].ret),
                            ![u].data = EmptyMap,
                            ![u].status = ""]
    /\ UNCHANGED <<opc, progress, blocked, cfut, cyielded, all_report_urls, store,
                   all_doses, repSentinel, overlapped, lastSave, inputs, final, call>>

NextLive ==
    \/ NextInputs
    \/ \E u \in DOMAIN rfut : RepUpdOpenFails(u)
    \/ \E u \in DOMAIN rfut : RepUpdDumpFails(u)

\* A step of the run before the merge, and the step of the main thread from
\* the merge to the end of main().
Proceeds == opc # "merge" /\ NextLive
Merges == opc = "merge" /\ opc' = "done"

\* One run in which ledger writes can fail.  The main thread and every worker
\* thread that can take a step eventually take one, and every request is
\* answered or times out (timeout=20, lines 122 and 170): the run does not
\* stop while a step is possible.
SpecLive == Init /\ [][NextLive]_vars /\ WF_vars(Proceeds) /\ WF_opc(Merges)

(***************************************************************************)
(* analyze_doses alone: one direct call on each list of dose strings       *)
(***************************************************************************)
\* At most so many dose strings in a list.
MaxDoses == 6

\* "80 mg", "100 mg", "150MG", "1,200 mg ", "1.5 g", "2 g", "a few mg".
DoseStrings ==
    { <<"8", "0", " ", "m", "g">>,
      <<"1", "0", "0", " ", "m", "g">>,
      <<"1", "5", "0", "M", "G">>,
      <<"1", ",", "2", "0", "0", " ", "m", "g", " ">>,
      <<"1", ".", "5", " ", "g">>,
      <<"2", " ", "g">>,
      <<"a", " ", "f", "e", "w", " ", "m", "g">> }

DoseLists == UNION {[1..n -> DoseStrings] : n \in 0..MaxDoses}

InitAnalyze ==
    /\ Fresh
    /\ inputs = [links |-> TRUE, drugs |-> TRUE]
    /\ call \in {[fn |-> "analyze_doses", arg |-> doses, ret |-> <<>>, returned |-> FALSE] :
                    doses \in DoseLists}

AnalyzeDoses ==
    /\ call.fn = "analyze_doses"
    /\ ~call.returned
    /\ call' = [call EXCEPT !.ret = analyze_doses(call.arg), !.returned = TRUE]
    /\ UNCHANGED <<opc, progress, blocked, cfut, cyielded, all_report_urls, rfut, ledgerFile,
                   store, all_doses, repSentinel, overlapped, lastSave, inputs, final>>

SpecAnalyze == InitAnalyze /\ [][AnalyzeDoses]_vars

\* The sample "80 mg", "100 mg", "120 mg", "150 mg", "200 mg", "300 mg", in
\* each order.
SampleDoses ==
    { <<"8", "0", " ", "m", "g">>,
      <<"1", "0", "0", " ", "m", "g">>,
      <<"1", "2", "0", " ", "m", "g">>,
      <<"1", "5", "0", " ", "m", "g">>,
      <<"2", "0", "0", " ", "m", "g">>,
      <<"3", "0", "0", " ", "m", "g">> }

InitSample ==
    /\ Fresh
    /\ inputs = [links |-> TRUE, drugs |-> TRUE]
    /\ call \in {[fn |-> "analyze_doses", arg |-> doses, ret |-> <<>>, returned |-> FALSE] :
                    doses \in Orders(SampleDoses)}

SpecSample == InitSample /\ [][AnalyzeDoses]_vars

(***************************************************************************)
(* Lines 219-267 alone: the statistics and the bands of the sorted values   *)
(* of one unit, for each number of values                                   *)
(***************************************************************************)
\* At most so many values.
MaxCount == 100

\* n samples in ascending order, every value three times: 1, 1, 1, 2, 2, 2,
\* 3, ... mg.
Ascending(n) == [i \in 1..n |-> ((i + 2) \div 3) * Scale]

InitValid ==
    /\ Fresh
    /\ inputs = [links |-> TRUE, drugs |-> TRUE]
    /\ call \in {[fn |-> "analyze_valid", arg |-> Ascending(n), ret |-> <<>>, returned |-> FALSE] :
                    n \in 1..MaxCount}

AnalyzeValid ==
    /\ call.fn = "analyze_valid"
    /\ ~call.returned
    /\ call' = [call EXCEPT !.ret = analyze_valid(call.arg, <<"m", "g">>), !.returned = TRUE]
    /\ UNCHANGED <<opc, progress, blocked, cfut, cyielded, all_report_urls, rfut, ledgerFile,
                   store, all_doses, repSentinel, overlapped, lastSave, inputs, final>>

SpecValid == InitValid /\ [][AnalyzeValid]_vars

(***************************************************************************)
(* extract_doses_from_text alone: one direct call on each text             *)
(***************************************************************************)
\* At most so many dose lines in a text.
MaxPhrases == 2

\* The parts of a dose line: "5" or "1.5"; "G" or "drop"; nothing or a
\* space; "IV" or "smoked"; "LSD" or "l  s-d" (two spaces); and
\* what follows the substance: " (x)" and a newline, a newline alone, or
\* "! ".
Amounts == {<<"5">>, <<"1", ".", "5">>}
UnitWords == {<<"G">>, <<"d", "r", "o", "p">>}
Gaps == {<<>>, <<" ">>}
MethodWords == {<<"I", "V">>, <<"s", "m", "o", "k", "e", "d">>}
Names == {<<"L", "S", "D">>, <<"l", " ", " ", "s", "-", "d">>}
Tails == {<<" ", "(", "x", ")", "\n">>, <<"\n">>, <<"!", " ">>}

Phrases ==
    {amount \o <<" ">> \o unit \o gap \o method \o <<" ">> \o name \o tail :
        amount \in Amounts, unit \in UnitWords, gap \in Gaps, method \in MethodWords,
        name \in Names, tail \in Tails}

RECURSIVE Joined(_)
Joined(phrases) == IF phrases = <<>> THEN <<>> ELSE Head(phrases) \o Joined(Tail(phrases))

\* The texts of at most n dose lines.
Texts(n) == {Joined(phrases) : phrases \in UNION {[1..k -> Phrases] : k \in 0..n}}

InitExtract ==
    /\ Fresh
    /\ inputs = [links |-> TRUE, drugs |-> TRUE]
    /\ call \in {[fn |-> "extract_doses_from_text", arg |-> text, ret |-> <<>>, returned |-> FALSE] :
                    text \in Texts(MaxPhrases)}

ExtractDoses ==
    /\ call.fn = "extract_doses_from_text"
    /\ ~call.returned
    /\ call' = [call EXCEPT !.ret = extract_doses_from_text(call.arg), !.returned = TRUE]
    /\ UNCHANGED <<opc, progress, blocked, cfut, cyielded, all_report_urls, rfut, ledgerFile,
                   store, all_doses, repSentinel, overlapped, lastSave, inputs, final>>

SpecExtract == InitExtract /\ [][ExtractDoses]_vars

(***************************************************************************)
(* The merge loop body, the analysis and the output sorter (lines 405-452) *)
(* alone: one direct pass over each list of records                        *)
(***************************************************************************)
\* At most so many records in a list.
MaxRecords == 4

\* Two spellings of one canonical name, another canonical name, and two
\* labels that match no canonical name.
Labels ==
    { <<"L", "S", "D">>, <<"l", "-", "s", "d">>, <<"M", "D", "M", "A">>,
      <<"X", " ", "1">>, <<"Y">> }

RecordDoses == { <<"1", "0", "0", " ", "m", "g">>, <<"a", " ", "f", "e", "w">> }

Records ==
    [substance : Labels, method : {"oral"}, dose : RecordDoses]
        \cup [substance : {<<"L", "S", "D">>}, method : {"smoked"}, dose : RecordDoses]

RecordLists == UNION {[1..n -> Records] : n \in 0..MaxRecords}

InitOutput ==
    /\ Fresh
    /\ inputs \in [links : {TRUE}, drugs : BOOLEAN]
    /\ call \in {[fn |-> "output", arg |-> recs, ret |-> <<>>, returned |-> FALSE] :
                    recs \in RecordLists}

SortOutput ==
    /\ call.fn = "output"
    /\ ~call.returned
    /\ call' = [call EXCEPT
                   !.ret = final_output(formatted_data(AddDoses(EmptyMap, call.arg), call.arg),
                                        load_drugs_json(inputs.drugs)),
                   !.returned = TRUE]
    /\ UNCHANGED <<opc, progress, blocked, cfut, cyielded, all_report_urls, rfut, ledgerFile,
                   store, all_doses, repSentinel, overlapped, lastSave, inputs, final>>

SpecOutput == InitOutput /\ [][SortOutput]_vars

(***************************************************************************)
(* get_report_urls alone: one direct call on each answer and each page     *)
(***************************************************************************)
\* At most so many anchors on a page.
MaxLinks == 4

\* Anchors: relative, rooted and absolute links to reports, and a link to
\* something else.
Hrefs == {RelHref("7"), RootHref("7"), AbsHref("7"), RelHref("8"), OtherHref}

Pages == UNION {[1..n -> Hrefs] : n \in 0..MaxLinks}

InitCategory ==
    /\ Fresh
    /\ inputs = [links |-> TRUE, drugs |-> TRUE]
    /\ call \in {[fn |-> "get_report_urls", arg |-> [resp |-> resp, hrefs |-> hrefs],
                  ret |-> <<>>, returned |-> FALSE] :
                    resp \in CatResponses, hrefs \in Pages}

GetReportUrls ==
    /\ call.fn = "get_report_urls"
    /\ ~call.returned
    /\ call' = [call EXCEPT !.ret = get_report_urls(call.arg.resp, call.arg.hrefs),
                             !.returned = TRUE]
    /\ UNCHANGED <<opc, progress, blocked, cfut, cyielded, all_report_urls, rfut, ledgerFile,
                   store, all_doses, repSentinel, overlapped, lastSave, inputs, final>>

SpecCategory == InitCategory /\ [][GetReportUrls]_vars

(***************************************************************************)
(* The merge and the analysis alone (lines 392-465), on each content of a  *)
(* store of three result files                                             *)
(***************************************************************************)
MergeUrls ==
    { HrefToUrl(RelHref("7")), HrefToUrl(RootHref("8")),
      <<"https://www.erowid.org", "/experiences/", "exp.cgi">> }

\* A second record of the group of Rec1, with its dose in another unit.
Rec3 ==
    [substance |-> <<"L", "S", "D">>, dose |-> <<"1", "2", "0", " ", "m", "g">>,
     method |-> "oral"]

MergeDoses == UNION {[1..n -> {Rec1, Rec2, Rec3}] : n \in 0..2}

FilesFor(u) == {CorruptReport} \cup {OkReport(u, doses) : doses \in MergeDoses}

Stores ==
    {files \in [{get_report_id(u) : u \in MergeUrls} -> UNION {FilesFor(u) : u \in MergeUrls}] :
        \A u \in MergeUrls : files[get_report_id(u)] \in FilesFor(u)}

InitMerge ==
    /\ opc = "merge"
    /\ store \in Stores
    /\ progress = EmptyMap
    /\ blocked = FALSE
    /\ cfut = EmptyMap
    /\ cyielded = {}
    /\ all_report_urls = {}
    /\ rfut = EmptyMap
    /\ ledgerFile = MissingLedger
    /\ all_doses = EmptyMap
    /\ repSentinel = FALSE
    /\ overlapped = FALSE
    /\ lastSave = NoSave
    /\ final = NoFinal
    /\ inputs = [links |-> TRUE, drugs |-> TRUE]
    /\ call = NoCall

SpecMerge == InitMerge /\ [][Merge]_vars

(***************************************************************************)
(* Claims                                                                  *)
(***************************************************************************)
\* Every report URL the category pages can yield.
ReportUrls == UNION {Range(CollectUrls(PageLinks(c), <<>>)) : c \in all_category_urls}

AfterSubmit == {"rep_loop", "rep_join", "merge", "done"}

\* C1: the report tasks submitted are exactly those for the URLs that are in
\* the frontier discovered in this run and that the ledger loaded at the start
\* of the run does not map to "done"; before the submission no report task
\* exists and `progress` is the ledger as persisted when the run started;
\* after it no task is added or dropped.
C1_DispatchIffNotDone ==
    /\ [](opc \in {"cat_loop", "cat_blocked", "cat_join"} =>
              /\ DOMAIN rfut = {}
              /\ progress = load_progress(ledgerFile))
    /\ [][(opc = "cat_join" /\ opc' = "rep_loop") =>
              \A u \in ReportUrls :
                  u \in DOMAIN rfut' <=> (u \in all_report_urls /\ Get(progress, u) # "done")]_vars
    /\ [](opc \in AfterSubmit => DOMAIN rfut \subseteq all_report_urls \cap ReportUrls)
    /\ [][(opc \in AfterSubmit /\ opc' \in AfterSubmit) => DOMAIN rfut' = DOMAIN rfut]_vars

\* A run that skips a URL marked done and fetches again one marked failed or
\* failed_blocked and one that the ledger does not hold (no task has written
\* to the ledger yet).
C1_Witness ==
    /\ opc = "rep_loop"
    /\ \A t \in DOMAIN rfut : rfut[t].st = "fetching" /\ rfut[t].issued = <<>>
    /\ \E u \in all_report_urls : Get(load_progress(ledgerFile), u) = "done" /\ u \notin DOMAIN rfut
    /\ \E v \in DOMAIN rfut : Get(load_progress(ledgerFile), v) \in {"failed", "failed_blocked"}
    /\ \E w \in DOMAIN rfut : Get(load_progress(ledgerFile), w) = "absent"

\* How often record r occurs in the groups of all_doses.
CorpusCount(groups, r) ==
    LET key == <<r.substance, r.method>>
    IN  IF key \in DOMAIN groups
        THEN Cardinality({i \in DOMAIN groups[key] : groups[key][i] = r.dose})
        ELSE 0

\* How often record r occurs in the well-formed files of the store.
StoreCount(files, r) ==
    Cardinality({p \in UNION {{<<k, i>> : i \in DOMAIN files[k].doses} :
                                  k \in {x \in DOMAIN files : files[x].kind = "ok"}} :
                    files[p[1]].doses[p[2]] = r})

GroupRecords(groups) ==
    UNION {{[substance |-> key[1], method |-> key[2], dose |-> groups[key][i]] :
               i \in DOMAIN groups[key]} : key \in DOMAIN groups}

\* C2: when the merge is over, the dose corpus holds exactly the dose records
\* of the well-formed result files in the store, each as often as the files
\* hold it, whichever run wrote the file.
C2_CorpusIsStore ==
    opc = "done" =>
        /\ \A r \in GroupRecords(all_doses) \cup {Rec1, Rec2} :
               CorpusCount(all_doses, r) = StoreCount(store, r)
        /\ \A key \in DOMAIN all_doses : all_doses[key] # <<>>

\* A merge in a run that skipped a URL as done, whose file an earlier run
\* wrote, and that wrote another file itself: the corpus has both.
C2_Witness ==
    /\ opc = "done"
    /\ \E u \in all_report_urls :
           /\ u \notin DOMAIN rfut
           /\ store[get_report_id(u)] = OkReport(u, <<Rec1, Rec2>>)
    /\ \E v \in DOMAIN rfut : rfut[v].st = "done" /\ store[get_report_id(v)] = OkReport(v, <<Rec1>>)
    /\ all_doses[<<Rec1.substance, Rec1.method>>] = <<Rec1.dose, Rec1.dose>>

\* The states of section 4.2: every step between the dispatch and the return
\* of process_report is "fetching".
Phase(st) == IF st \in RTerminal \cup {"pending"} THEN st ELSE "fetching"

StatusFor(st) ==
    CASE st = "done" -> "done"
      [] st = "failed" -> "failed"
      [] st = "blocked" -> "failed_blocked"
      [] OTHER -> "none"

PhaseEdge(a, b) ==
    \/ a = b
    \/ a = "pending" /\ b = "fetching"
    \/ a = "fetching" /\ b \in RTerminal

Statuses == {"done", "failed", "failed_blocked"}

\* C3: a report task moves pending -> fetching -> one of done, failed,
\* blocked and stays there; a task that has returned issued exactly one ledger
\* update, with the status of its terminal state; a task that ended done has
\* its result file in the store; when the pool has been joined every
\* dispatched task has returned; the ledger holds no other status value.
C3_TaskStateMachine ==
    /\ [](/\ \A u \in DOMAIN rfut :
                /\ rfut[u].st \in RTerminal => rfut[u].issued = <<StatusFor(rfut[u].st)>>
                /\ rfut[u].st \notin RTerminal => Len(rfut[u].issued) <= 1
                /\ rfut[u].st \in {"saved", "done"} => get_report_id(u) \in DOMAIN store
                /\ opc \in {"merge", "done"} => rfut[u].st \in RTerminal
          /\ \A k \in DOMAIN ledgerFile.data : ledgerFile.data[k] \in Statuses)
    /\ [][\A u \in DOMAIN rfut :
              u \in DOMAIN rfut' => PhaseEdge(Phase(rfut[u].st), Phase(rfut'[u].st))]_vars

\* The pool has been joined after three tasks that ended in the three
\* terminal states.
C3_Witness ==
    /\ opc = "merge"
    /\ \E u, v, w \in DOMAIN rfut :
           rfut[u].st = "done" /\ rfut[v].st = "failed" /\ rfut[w].st = "blocked"

\* C4: the rewrite that ends an update persists the writer's own loaded
\* mapping with its key set, and nothing else: whatever other workers
\* persisted after the writer loaded is discarded (or the file is left
\* unparsable).  Nothing orders the updates of two workers.
C4_RewriteFromStaleLoad ==
    [][\A u \in DOMAIN rfut :
           (rfut[u].st = "upd_open" /\ u \in DOMAIN rfut' /\ rfut'[u].st \in RTerminal) =>
               \/ ledgerFile' = CorruptLedger
               \/ /\ ledgerFile'.kind = "ok"
                  /\ Get(ledgerFile'.data, u) = rfut[u].status
                  /\ \A k \in ReportUrls \ {u} :
                         Get(ledgerFile'.data, k) = Get(rfut[u].data, k)]_vars

\* A lost update: two workers have completed their updates for two URLs, and
\* the persisted ledger holds only one of the two entries.
C4_Witness ==
    /\ InUpdate = {}
    /\ ledgerFile.kind = "ok"
    /\ \E u, v \in DOMAIN rfut :
           /\ u # v
           /\ rfut[u].st \in RTerminal /\ rfut[v].st \in RTerminal
           /\ Get(ledgerFile.data, u) = rfut[u].issued[1]
           /\ v \notin DOMAIN ledgerFile.data

\* C5: as long as no update of this run began while another was in progress:
\* an update loads the mapping as persisted and changes the entry of its own
\* URL only, nothing else writes to the ledger until the update has written,
\* and what it writes is that mapping; so, when no update is in progress, the
\* ledger maps every URL updated in this run to the status of its update.
C5_SequentialUpdates ==
    /\ []((opc \in AfterSubmit /\ ~overlapped /\ InUpdate = {}) =>
              /\ (\E u \in DOMAIN rfut : rfut[u].issued # <<>>) => ledgerFile.kind = "ok"
              /\ \A u \in DOMAIN rfut :
                     rfut[u].issued # <<>> =>
                         Get(load_progress(ledgerFile), u) = rfut[u].issued[Len(rfut[u].issued)])
    /\ [][\A u \in DOMAIN rfut :
              (u \in DOMAIN rfut' /\ ~overlapped') =>
                  /\ (rfut[u].st # "upd_loaded" /\ rfut'[u].st = "upd_loaded") =>
                         /\ Get(rfut'[u].data, u) = rfut'[u].status
                         /\ \A k \in ReportUrls \ {u} :
                                Get(rfut'[u].data, k) = Get(load_progress(ledgerFile), k)
                  /\ (rfut[u].st = "upd_loaded" /\ rfut'[u].st = "upd_loaded") =>
                         ledgerFile' = ledgerFile
                  /\ (rfut[u].st = "upd_open" /\ rfut'[u].st = "upd_open") =>
                         ledgerFile' = ledgerFile
                  /\ (rfut[u].st = "upd_open" /\ rfut'[u].st \in RTerminal) =>
                         ledgerFile' = OkLedger(rfut[u].data)]_vars

\* Two updates one after the other have written their statuses, while the
\* entry of a URL that was not fetched in this run was left as it was.
C5_Witness ==
    /\ opc \in AfterSubmit /\ ~overlapped /\ InUpdate = {}
    /\ \E u, v \in DOMAIN rfut, k \in all_report_urls :
           /\ u # v /\ k \notin DOMAIN rfut
           /\ rfut[u].st = "done" /\ rfut[v].st \in RTerminal
           /\ Get(load_progress(ledgerFile), u) = "done"
           /\ Get(load_progress(ledgerFile), v) = rfut[v].issued[1]
           /\ Get(load_progress(ledgerFile), k) = "done"

\* C6 (as claimed): once the report loop has read a block sentinel, no
\* pending report task begins fetching.
C6_NoReportStartAfterSentinel ==
    [][repSentinel =>
           \A u \in DOMAIN rfut :
               (u \in DOMAIN rfut' /\ rfut[u].st = "pending") => rfut'[u].st = "pending"]_vars

\* C7 (as claimed): once the category loop has read a block sentinel, no
\* queued category fetch begins.
C7_NoCategoryStartAfterSentinel ==
    [][blocked =>
           \A c \in DOMAIN cfut :
               (c \in DOMAIN cfut' /\ cfut[c].st = "queued") => cfut'[c].st # "running"]_vars

\* C7 (amended): the cancellation that follows the sentinel cancels every
\* category fetch still queued and no other; once it has been made no category
\* fetch is taken up by a worker; a fetch that is executing is never
\* interrupted: its next state is executing or finished.
C7_CancelQueuedCategories ==
    [][\A c \in DOMAIN cfut :
           /\ (blocked /\ opc # "cat_blocked" /\ c \in DOMAIN cfut') =>
                  (cfut'[c].st = "running" => cfut[c].st = "running")
           /\ (opc = "cat_blocked" /\ opc' = "cat_join") =>
                  (cfut'[c].st = "cancelled" <=> cfut[c].st = "queued")
           /\ cfut[c].st = "running" =>
                  (c \in DOMAIN cfut' /\ cfut'[c].st \in {"running", "finished"})]_vars

\* After the cancellation: one category fetch was cancelled in the queue and
\* another is still executing.
C7_Witness ==
    /\ blocked /\ opc = "cat_join"
    /\ \E c, d \in DOMAIN cfut : cfut[c].st = "cancelled" /\ cfut[d].st = "running"

\* C8: while and after the aggregator reads the store, every dispatched
\* report task has returned and no category future is left; and the report
\* tasks are submitted only when every category fetch has finished or been
\* cancelled.
C8_MergeAfterSettle ==
    /\ [](opc \in {"merge", "done"} =>
              /\ \A u \in DOMAIN rfut : rfut[u].st \in RTerminal
              /\ DOMAIN cfut = {})
    /\ [][(opc = "cat_join" /\ opc' = "rep_loop") =>
              \A c \in DOMAIN cfut : cfut[c].st \in CSettled]_vars

\* The aggregator is about to read the store in a run that was cut short by a
\* block sentinel in the report phase, after three report tasks.
C8_Witness ==
    /\ opc = "merge" /\ repSentinel
    /\ Cardinality(DOMAIN rfut) = 3
    /\ \E u \in DOMAIN rfut : rfut[u].st = "done"

\* C9 (as claimed): any two distinct report URLs dispatched in one run have
\* distinct report identifiers.
C9_DistinctReportIds ==
    \A u, v \in DOMAIN rfut : u # v => get_report_id(u) # get_report_id(v)

FilesOf(files, u) == {k \in DOMAIN files : files[k].kind = "ok" /\ files[k].url = u}

\* C10: a call save_temp_report(url, doses) leaves exactly one result file
\* for url, holding url and doses; a call for a URL that has a file adds no
\* file; no URL ever has two files.
C10_OneFilePerUrl ==
    /\ [](\A u \in StoreUrls : Cardinality(FilesOf(store, u)) <= 1)
    /\ [][/\ Cardinality(FilesOf(store', lastSave'.url)) = 1
          /\ \A k \in FilesOf(store', lastSave'.url) : store'[k].doses = lastSave'.doses
          /\ lastSave'.again => DOMAIN store' = DOMAIN store]_vars

\* The same URL persisted again, with other doses, among files of URLs with
\* an embedded ID and with a digest as identifier.
C10_Witness ==
    /\ lastSave.again
    /\ lastSave.doses = <<Rec1, Rec2>>
    /\ Cardinality(DOMAIN store) = 4
    /\ \E k \in DOMAIN store : k[1] = "md5" /\ store[k].url = lastSave.url

\* A step of the report task for u.
TaskStep(u) == u \in DOMAIN rfut /\ u \in DOMAIN rfut' /\ rfut'[u] # rfut[u]

\* The step in which the report task for u gets the outcome of its request.
FetchStep(u) == TaskStep(u) /\ rfut[u].st = "fetching"

\* The ledger after the write of status for u, unless the write collided.
Wrote(f, u, status) == f = CorruptLedger \/ (f.kind = "ok" /\ Get(f.data, u) = status)

\* The request raised, or the page is no block page and its parse raised.
Raised(resp) ==
    \/ resp.kind = "exception"
    \/ resp.kind = "response" /\ ~resp.parses /\ resp.status_code # 403
          /\ ~(resp.marker >= 0 /\ resp.marker + 7 <= 500)

\* C11: when the request or the parse of a report task raises, the task issues
\* the one ledger update "failed" for its URL, keeps no extraction result and
\* is bound to return the empty list; from then on no step of the task touches
\* the report store, its last step writes "failed" for the URL to the ledger,
\* and it ends as a returned task (nothing is raised into the orchestrator).
C11_ExceptionGivesFailed ==
    /\ [][\A u \in DOMAIN rfut :
            (FetchStep(u) /\ Raised(rfut'[u].resp)) =>
                /\ rfut'[u].issued = <<"failed">>
                /\ rfut'[u].ret = "empty"
                /\ rfut'[u].results = <<>>
                /\ store' = store]_vars
    /\ [][\A u \in DOMAIN rfut :
            (TaskStep(u) /\ rfut[u].ret = "empty") =>
                /\ store' = store
                /\ rfut'[u].ret = "empty" /\ rfut'[u].results = <<>>
                /\ rfut'[u].issued = <<"failed">>
                /\ rfut'[u].st \in {"upd_open", "failed"}
                /\ rfut'[u].st = "failed" => Wrote(ledgerFile', u, "failed")]_vars
    /\ [](\A u \in DOMAIN rfut :
            rfut[u].st = "failed" => rfut[u].ret = "empty" /\ rfut[u].issued = <<"failed">>)

\* A task has returned [] after an exception: the ledger says "failed" for its
\* URL and the store has no file under the URL's id.
C11_Witness ==
    \E u \in DOMAIN rfut :
        /\ rfut[u].st = "failed"
        /\ ledgerFile.kind = "ok" /\ Get(ledgerFile.data, u) = "failed"
        /\ get_report_id(u) \notin DOMAIN store

\* The response is a denial: status 403, or "Blocked" within the leading 500
\* characters.
Denied(resp) ==
    /\ resp.kind = "response"
    /\ resp.status_code = 403 \/ (resp.marker >= 0 /\ resp.marker + 7 <= 500)

\* C12: when the response to a report fetch is a denial, the task issues the
\* one ledger update "failed_blocked", holds no extraction result and is bound
\* to return 'BLOCKED'; from then on no step of the task touches the report
\* store, its last step writes "failed_blocked" for the URL to the ledger, and
\* the task ends with the sentinel as its result.  No other response leads to
\* the sentinel.
C12_DenialGivesSentinel ==
    /\ [][\A u \in DOMAIN rfut :
            FetchStep(u) =>
                /\ Denied(rfut'[u].resp) <=> rfut'[u].ret = "BLOCKED"
                /\ Denied(rfut'[u].resp) =>
                      /\ rfut'[u].issued = <<"failed_blocked">>
                      /\ rfut'[u].results = <<>>
                      /\ store' = store]_vars
    /\ [][\A u \in DOMAIN rfut :
            (TaskStep(u) /\ rfut[u].ret = "BLOCKED") =>
                /\ store' = store
                /\ rfut'[u].ret = "BLOCKED" /\ rfut'[u].results = <<>>
                /\ rfut'[u].issued = <<"failed_blocked">>
                /\ rfut'[u].st \in {"upd_open", "blocked"}
                /\ rfut'[u].st = "blocked" => Wrote(ledgerFile', u, "failed_blocked")]_vars
    /\ [](\A u \in DOMAIN rfut :
            rfut[u].st = "blocked" => rfut[u].ret = "BLOCKED" /\ rfut[u].issued = <<"failed_blocked">>)

\* A task has returned 'BLOCKED': the ledger says "failed_blocked" for its URL
\* and the store has no file under the URL's id.
C12_Witness ==
    \E u \in DOMAIN rfut :
        /\ rfut[u].st = "blocked"
        /\ ledgerFile.kind = "ok" /\ Get(ledgerFile.data, u) = "failed_blocked"
        /\ get_report_id(u) \notin DOMAIN store

\* C13 (as claimed): a run in which a block sentinel was read, in either
\* phase, ends with the final result file written and with the warning that
\* the pass was incomplete in its summary.
C13_BlockIsReported ==
    (opc = "done" /\ (blocked \/ repSentinel)) => (final.written /\ final.warned)

\* C14 (as claimed): when the link map or drugs.json is missing, no fetch task
\* is ever submitted, no final result file is written, and the run ends with
\* a non-zero exit status.
C14_MissingInputIsFatal ==
    (~inputs.links \/ ~inputs.drugs) =>
        /\ cfut = EmptyMap /\ rfut = EmptyMap
        /\ ~final.written
        /\ opc = "done" => final.exit_status > 0

FileCount(f, r) == Cardinality({i \in DOMAIN f.doses : f.doses[i] = r})

\* C16: a result file that does not parse does not end the merge: the run
\* ends with the final result file written, and every record of every file
\* that parses is in the corpus, whatever the other files hold.
C16_MergeSkipsMalformed ==
    opc = "done" =>
        /\ final.written
        /\ \A k \in DOMAIN store :
               store[k].kind = "ok" =>
                   \A i \in DOMAIN store[k].doses :
                       CorpusCount(all_doses, store[k].doses[i])
                           >= FileCount(store[k], store[k].doses[i])

\* A merge over a store with an unparsable file and a file with a record.
C16_Witness ==
    /\ opc = "done"
    /\ \E k, j \in DOMAIN store :
           /\ store[k].kind = "corrupt"
           /\ store[j].kind = "ok" /\ store[j].doses # <<>>
           /\ CorpusCount(all_doses, store[j].doses[1]) > 0

\* A direct call of analyze_doses has returned.
Analyzed == call.fn = "analyze_doses" /\ call.returned

\* The samples: the dose strings that parse to a value and a unit.
Samples == ParseAll(call.arg)
SamplesIn(s, u) == {i \in DOMAIN s : s[i].unit = u}
ValuesIn(s, u) == {s[i].val : i \in SamplesIn(s, u)}
Units(s) == {s[i].unit : i \in DOMAIN s}

\* The units with the most samples, and that number of samples.
TopUnits(s) ==
    {u \in Units(s) :
        \A w \in Units(s) : Cardinality(SamplesIn(s, w)) <= Cardinality(SamplesIn(s, u))}
TopCount(s) ==
    IF s = <<>> THEN 0 ELSE Cardinality(SamplesIn(s, CHOOSE u \in TopUnits(s) : TRUE))

Least(S) == CHOOSE v \in S : \A w \in S : v <= w
Greatest(S) == CHOOSE v \in S : \A w \in S : w <= v

\* The element at 0-based index min(floor(count * tenths / 10), count - 1) of
\* the ascending values in unit u: the value with at most that many samples
\* below it and more than that many samples not above it.
Percentile(s, u, tenths) ==
    LET in == SamplesIn(s, u)
        count == Cardinality(in)
        floor == (count * tenths) \div 10
        idx == IF floor < count - 1 THEN floor ELSE count - 1
    IN  CHOOSE v \in ValuesIn(s, u) :
            /\ Cardinality({i \in in : s[i].val < v}) <= idx
            /\ Cardinality({i \in in : s[i].val <= v}) > idx

\* C17: when the selected unit has at least 5 samples, the band boundaries
\* are ordered, min <= p10 <= p30 <= p70 <= p90 <= max, where Threshold is
\* [min, p10], Common is [p30, p70] and Heavy starts at p90, the element at
\* index min(floor(0.9 * count), count - 1) of the ascending values.
C17_BandsOrdered ==
    Analyzed =>
        LET s == Samples
        IN  TopCount(s) >= 5 =>
                /\ call.ret # <<>>
                /\ LET r == call.ret[1]
                       u == r.Heavy.unit
                       vals == ValuesIn(s, u)
                   IN  /\ u \in TopUnits(s)
                       /\ r.Threshold.kind \in {"single", "range"}
                       /\ r.Common.kind \in {"single", "range"}
                       /\ r.Heavy.kind = "plus"
                       /\ r.Threshold.lo = Least(vals)
                       /\ r.Threshold.lo <= r.Threshold.hi
                       /\ r.Threshold.hi <= r.Common.lo
                       /\ r.Common.lo <= r.Common.hi
                       /\ r.Common.hi <= r.Heavy.lo
                       /\ r.Heavy.lo <= Greatest(vals)
                       /\ r.Heavy.lo = Percentile(s, u, 9)

\* Five or more samples in one unit, with p10 < p30 < p70 < p90.
C17_Witness ==
    /\ Analyzed /\ call.ret # <<>>
    /\ call.ret[1].Light.kind = "range"
    /\ call.ret[1].Common.kind = "range"
    /\ call.ret[1].Strong.kind = "range"
    /\ TopCount(Samples) >= 5

\* C18: when the selected unit has 1 to 4 samples, Common is the only band
\* that is populated: the single value when there is one sample or when the
\* smallest and the largest value are equal, and else the range from the
\* smallest to the largest.
C18_FewSamplesCommonOnly ==
    Analyzed =>
        LET s == Samples
            n == TopCount(s)
        IN  n \in 1..4 =>
                /\ call.ret # <<>>
                /\ LET r == call.ret[1]
                       u == r.Common.unit
                       lo == Least(ValuesIn(s, u))
                       hi == Greatest(ValuesIn(s, u))
                   IN  /\ u \in TopUnits(s)
                       /\ r.Threshold = Blank /\ r.Light = Blank /\ r.Strong = Blank
                       /\ r.Heavy = Blank /\ r.Dangerous = Blank
                       /\ r.Common =
                              IF n = 1 \/ lo = hi
                              THEN [kind |-> "single", lo |-> lo, hi |-> lo, unit |-> u]
                              ELSE [kind |-> "range", lo |-> lo, hi |-> hi, unit |-> u]

\* Four samples in the selected unit, all of the same value, next to samples
\* in another unit: Common is that single value.
C18_Witness ==
    /\ Analyzed /\ call.ret # <<>>
    /\ call.ret[1].Common.kind = "single"
    /\ Len(call.arg) = 6
    /\ TopCount(Samples) = 4 /\ Cardinality(Units(Samples)) = 2

\* The populated bands of a result.
BandsOf(r) == {b \in {r.Threshold, r.Light, r.Common, r.Strong, r.Heavy} : b # Blank}

\* C20: the result is computed from the samples of one most frequent unit
\* alone: total_reports is the number of samples in that unit, every key of
\* the distribution and every endpoint of a band is a value given in that
\* unit, with that unit, and the frequencies are those of the unit's samples.
C20_MajorityUnitOnly ==
    (Analyzed /\ call.ret # <<>>) =>
        LET s == Samples
            r == call.ret[1]
            u == r.Common.unit
            in == SamplesIn(s, u)
            vals == ValuesIn(s, u)
        IN  /\ u \in TopUnits(s)
            /\ r.stats.total_reports = Cardinality(in)
            /\ \A i \in DOMAIN r.stats.distribution :
                   LET e == r.stats.distribution[i]
                   IN  /\ e.unit = u
                       /\ e.val \in vals
                       /\ e.n = Cardinality({j \in in : s[j].val = e.val})
            /\ \A b \in BandsOf(r) : b.unit = u /\ b.lo \in vals /\ b.hi \in vals

\* Four samples in mg and two in g: total_reports is 4.
C20_Witness ==
    /\ Analyzed /\ call.ret # <<>>
    /\ call.ret[1].stats.total_reports = 4
    /\ call.ret[1].Common.unit = <<"m", "g">>
    /\ Len(call.arg) = 6
    /\ Cardinality(SamplesIn(Samples, <<"g">>)) = 2

\* A direct pass over a list of records has returned the final output.
Sorted_out == call.fn = "output" /\ call.returned

\* Some record under a label with the normalized form of lab, and with the
\* method, has a dose string that parses.
Parses(lab, method) ==
    \E i \in DOMAIN call.arg :
        /\ normalize(call.arg[i].substance) = normalize(lab)
        /\ call.arg[i].method = method
        /\ ParseDose(call.arg[i].dose) # <<>>

\* C19: the final output has an entry only for a substance with a group in
\* which some dose string parses, and the entry has a band only for such a
\* group: a group without a parsable dose string has no band, and a substance
\* with no band is not in the final output.
C19_NoSampleNoEntry ==
    Sorted_out =>
        \A i \in DOMAIN call.ret :
            /\ call.ret[i].data # <<>>
            /\ \A j \in DOMAIN call.ret[i].data :
                   Parses(call.ret[i].key, call.ret[i].data[j].method)

\* The pass met a substance without any parsable dose string, and a substance
\* with one method that has a parsable dose string and one that has not.
C19_Witness ==
    /\ Sorted_out
    /\ Len(call.ret) = 1
    /\ Len(call.ret[1].data) = 1
    /\ \E i, j \in DOMAIN call.arg :
           /\ normalize(call.arg[i].substance) # normalize(call.ret[1].key)
           /\ normalize(call.arg[j].substance) = normalize(call.ret[1].key)
           /\ call.arg[j].method # call.ret[1].data[1].method

\* A direct call of get_report_urls has returned.
Fetched == call.fn = "get_report_urls" /\ call.returned

\* The request was answered by a page that is no denial and that parses.
Served(resp) == resp.kind = "response" /\ ~Denied(resp) /\ resp.parses

\* The positions of the anchors of a page that link to the report URL url.
LinksTo(page, url) == {k \in DOMAIN page : IsReportHref(page[k]) /\ HrefToUrl(page[k]) = url}

\* C25: on a page that was served, the call returns the report URLs that the
\* page links to, each once, in the order of their first anchors on the page.
C25_DistinctFirstSeen ==
    (Fetched /\ Served(call.arg.resp)) =>
        LET page == call.arg.hrefs
            urls == call.ret.urls
        IN  /\ call.ret.kind = "urls"
            /\ \A i, j \in DOMAIN urls : i # j => urls[i] # urls[j]
            /\ \A i \in DOMAIN urls : LinksTo(page, urls[i]) # {}
            /\ \A k \in DOMAIN page :
                   IsReportHref(page[k]) => \E i \in DOMAIN urls : urls[i] = HrefToUrl(page[k])
            /\ \A i, j \in DOMAIN urls :
                   i < j => \E k \in LinksTo(page, urls[i]) :
                               \A m \in LinksTo(page, urls[j]) : k < m

\* A page whose anchors link to one report in two spellings, with the link to
\* another report between them.
C25_Witness ==
    /\ Fetched /\ Served(call.arg.resp)
    /\ Len(call.arg.hrefs) = 4 /\ Len(call.ret.urls) = 2
    /\ \E k, m \in LinksTo(call.arg.hrefs, call.ret.urls[1]) :
           /\ call.arg.hrefs[k] # call.arg.hrefs[m]
           /\ \E n \in LinksTo(call.arg.hrefs, call.ret.urls[2]) : k < n /\ n < m

\* The category tasks that have returned and were not yet taken by the loop.
CatReturned == {c \in DOMAIN cfut : cfut[c].st = "finished" /\ c \notin cyielded}

\* C26: a category task returns the sentinel exactly when the response is a
\* denial and the empty list when the request or the parse raised (nothing
\* else is handed to the orchestrator); a task that has run is not run again
\* in the run, and what it returned stays as it is.
C26_CategoryOutcome ==
    /\ [](\A c \in DOMAIN cfut :
              /\ cfut[c].st = "finished" => cfut[c].res.kind \in {"BLOCKED", "urls"}
              /\ cfut[c].st # "finished" => cfut[c].res = NoResult
              /\ c \in CatReturned =>
                     /\ cfut[c].res.kind = "BLOCKED" <=> Denied(cfut[c].resp)
                     /\ Raised(cfut[c].resp) => cfut[c].res = [kind |-> "urls", urls |-> <<>>])
    /\ [][\A c \in DOMAIN cfut \cap DOMAIN cfut' :
              /\ cfut[c].st # "queued" => cfut'[c].st # "queued"
              /\ cfut[c].st \in CSettled =>
                     cfut'[c].st = cfut[c].st /\ cfut'[c].res = cfut[c].res]_vars

\* Three category tasks have returned: one the sentinel on a page of status
\* 200 with the marker at the end of the window, one the empty list after a
\* timeout, one its URLs from a page with the marker beyond the window.
C26_Witness ==
    \E a, b, c \in CatReturned :
        /\ cfut[a].resp.status_code = 200 /\ cfut[a].res.kind = "BLOCKED"
        /\ cfut[b].resp.kind = "exception" /\ cfut[b].res.kind = "urls"
        /\ cfut[c].resp.marker >= 0 /\ cfut[c].res.kind = "urls" /\ cfut[c].res.urls # <<>>

\* The first MAX_REPORTS_PER_CATEGORY elements of a list.
Leading(urls) == {urls[i] : i \in DOMAIN urls \cap 1..MAX_REPORTS_PER_CATEGORY}

CatPhase == {"cat_loop", "cat_blocked", "cat_join"}

\* C27: the frontier is the union, over the category tasks whose results the
\* loop has taken, of the first MAX_REPORTS_PER_CATEGORY URLs each returned;
\* a step of the loop adds at most that many URLs, and a URL beyond the cap
\* is in the frontier only when another category has it among its first.
C27_CapPerCategory ==
    /\ [](opc \in CatPhase =>
              all_report_urls = UNION {Leading(cfut[c].res.urls) : c \in cyielded})
    /\ [][\A c \in DOMAIN cfut :
              (opc \in CatPhase /\ c \notin cyielded /\ c \in cyielded') =>
                  /\ all_report_urls' \ all_report_urls \subseteq Leading(cfut[c].res.urls)
                  /\ Cardinality(all_report_urls' \ all_report_urls) <= MAX_REPORTS_PER_CATEGORY]_vars

\* The loop has taken a list that is longer than the cap, and a URL beyond
\* the cap is not in the frontier.
C27_Witness ==
    /\ opc \in CatPhase
    /\ \E c \in cyielded :
           /\ Len(cfut[c].res.urls) > MAX_REPORTS_PER_CATEGORY
           /\ \E i \in DOMAIN cfut[c].res.urls : cfut[c].res.urls[i] \notin all_report_urls
    /\ Cardinality(cyielded) > 1

\* C28: a report task issues "done" for its URL only in the step that follows
\* the close of the result file it wrote, and whenever a task has issued
\* "done" for a URL, or the ledger maps a URL to "done", the store holds the
\* file of the URL's identifier.
C28_DoneAfterFile ==
    /\ [](\A u \in DOMAIN rfut :
              Contains(rfut[u].issued, "done") => get_report_id(u) \in DOMAIN store)
    /\ [](\A u \in DOMAIN load_progress(ledgerFile) :
              load_progress(ledgerFile)[u] = "done" => get_report_id(u) \in DOMAIN store)
    /\ [][\A u \in DOMAIN rfut :
              (TaskStep(u) /\ rfut'[u].issued # rfut[u].issued /\ rfut'[u].status = "done") =>
                  /\ rfut[u].st = "saved"
                  /\ get_report_id(u) \in DOMAIN store]_vars

\* The ledger maps a URL to "done" and the store holds its result file.
C28_Witness ==
    \E u \in DOMAIN rfut :
        /\ rfut[u].st = "done"
        /\ ledgerFile.kind = "ok" /\ Get(ledgerFile.data, u) = "done"
        /\ get_report_id(u) \in DOMAIN store
        /\ store[get_report_id(u)] = OkReport(u, <<Rec1, Rec2>>)

\* The ledger file maps u to "done".
DoneIn(u) == ledgerFile.kind = "ok" /\ Get(ledgerFile.data, u) = "done"

\* No update has opened the ledger file without having closed it.
Quiet == \A v \in DOMAIN rfut : rfut[v].st # "upd_open"

\* C29 (as claimed): a URL that the ledger file maps to "done" is still
\* mapped to "done" after every step that leaves no rewrite of the file
\* under way, up to the end of the run (the file the next run loads).
C29_DonePersists ==
    [][\A u \in ReportUrls : (DoneIn(u) /\ Quiet') => DoneIn(u)']_vars

\* C30: once the category loop has read the sentinel, the frontier stays as
\* it is, whatever the category tasks still return, and the report tasks
\* submitted are those for the URLs of that frontier that the ledger loaded
\* at the start of the run does not map to "done".
C30_BlockEndsCategoryPhase ==
    /\ [](blocked => opc \notin {"start", "cat_loop"})
    /\ [][(blocked /\ opc \in CatPhase) =>
              /\ all_report_urls' = all_report_urls
              /\ opc' = "rep_loop" =>
                     DOMAIN rfut' = {u \in all_report_urls : Get(progress, u) # "done"}]_vars

\* A report of the frontier gathered before the sentinel is done, while a
\* report that only a later category lists was not submitted.
C30_Witness ==
    /\ blocked /\ opc = "rep_loop"
    /\ \E u \in DOMAIN rfut : rfut[u].st = "done"
    /\ \E u \in ReportUrls : u \notin all_report_urls

\* The sample was analyzed.
SampleAnalyzed == call.fn = "analyze_doses" /\ call.returned /\ call.ret # <<>>

\* v mg as a band endpoint.
Mg(v) == v * 1000

\* C21 (as claimed): the sample gives Threshold '80 mg', Light '100 mg',
\* Common '100-200 mg', Strong '200-300 mg' and Heavy '300+ mg'.
C21_SampleAsClaimed ==
    SampleAnalyzed =>
        LET r == call.ret[1]
            mg == <<"m", "g">>
        IN  /\ r.Threshold = [kind |-> "single", lo |-> Mg(80), hi |-> Mg(80), unit |-> mg]
            /\ r.Light = [kind |-> "single", lo |-> Mg(100), hi |-> Mg(100), unit |-> mg]
            /\ r.Common = [kind |-> "range", lo |-> Mg(100), hi |-> Mg(200), unit |-> mg]
            /\ r.Strong = [kind |-> "range", lo |-> Mg(200), hi |-> Mg(300), unit |-> mg]
            /\ r.Heavy = [kind |-> "plus", lo |-> Mg(300), hi |-> Mg(300), unit |-> mg]

\* C21 (amended): the sample, in whatever order, gives p10 = 80, p30 = 100,
\* p70 = 200, p90 = 300 and the bands Threshold '80 mg', Light '80-100 mg'
\* (from p10 to p30), Common '100-200 mg', Strong '200-300 mg' and Heavy
\* '300+ mg'.
C21_SampleBands ==
    SampleAnalyzed =>
        LET r == call.ret[1]
            mg == <<"m", "g">>
        IN  /\ r.Threshold = [kind |-> "single", lo |-> Mg(80), hi |-> Mg(80), unit |-> mg]
            /\ r.Light = [kind |-> "range", lo |-> Mg(80), hi |-> Mg(100), unit |-> mg]
            /\ r.Common = [kind |-> "range", lo |-> Mg(100), hi |-> Mg(200), unit |-> mg]
            /\ r.Strong = [kind |-> "range", lo |-> Mg(200), hi |-> Mg(300), unit |-> mg]
            /\ r.Heavy = [kind |-> "plus", lo |-> Mg(300), hi |-> Mg(300), unit |-> mg]
            /\ r.stats.total_reports = Cardinality(SampleDoses)

\* The sample was given with its largest dose first and its smallest last.
C21_Witness ==
    /\ SampleAnalyzed
    /\ call.arg[1] = <<"3", "0", "0", " ", "m", "g">>
    /\ call.arg[Len(call.arg)] = <<"8", "0", " ", "m", "g">>
    /\ call.ret[1].Heavy.kind = "plus"

\* The DoseBand of each group of a corpus.
Bands(groups) == [k \in DOMAIN groups |-> analyze_doses(groups[k])]

\* C22 (as claimed): the merge and the analysis of the files of a store give
\* the same DoseBand for every group in whatever order the files are read.
C22_OrderIndependent ==
    opc = "done" =>
        \A order \in Orders(DOMAIN store) :
            Bands(MergeFiles(EmptyMap, store, order)) = Bands(all_doses)

\* The keys of the final output, the canonical names, and the position of
\* the first record of a label.
OutKeys == [i \in DOMAIN call.ret |-> call.ret[i].key]
CanonicalNames == load_drugs_json(inputs.drugs)
IsCanonical(key) == \E i \in DOMAIN CanonicalNames : CanonicalNames[i] = key
HasBand(lab) ==
    \E i \in DOMAIN call.arg :
        call.arg[i].substance = lab /\ ParseDose(call.arg[i].dose) # <<>>
Matched(lab) ==
    \E i \in DOMAIN CanonicalNames : normalize(CanonicalNames[i]) = normalize(lab)
FirstRecord(lab) ==
    CHOOSE i \in DOMAIN call.arg :
        /\ call.arg[i].substance = lab
        /\ \A j \in DOMAIN call.arg : call.arg[j].substance = lab => i <= j
CanonicalRank(key) == CHOOSE i \in DOMAIN CanonicalNames : CanonicalNames[i] = key

\* C23: the keys of the final output are, without repetition, the canonical
\* names matched by a label that has a band, in canonical order, followed by
\* the labels that have a band and match no canonical name, in the order of
\* their first records.
C23_SorterOrder ==
    Sorted_out =>
        /\ \A i, j \in DOMAIN OutKeys : i # j => OutKeys[i] # OutKeys[j]
        /\ \A i \in DOMAIN CanonicalNames :
               (\E lab \in Labels : HasBand(lab) /\ normalize(lab) = normalize(CanonicalNames[i]))
                   <=> Contains(OutKeys, CanonicalNames[i])
        /\ \A lab \in Labels :
               (HasBand(lab) /\ ~Matched(lab)) <=> (Contains(OutKeys, lab) /\ ~IsCanonical(lab))
        /\ \A i \in DOMAIN OutKeys : IsCanonical(OutKeys[i]) \/ OutKeys[i] \in Labels
        /\ \A i, j \in DOMAIN OutKeys :
               i < j =>
                   IF IsCanonical(OutKeys[i])
                   THEN IsCanonical(OutKeys[j]) => CanonicalRank(OutKeys[i]) < CanonicalRank(OutKeys[j])
                   ELSE /\ ~IsCanonical(OutKeys[j])
                        /\ FirstRecord(OutKeys[i]) < FirstRecord(OutKeys[j])

\* Records of two unmatched labels, then of the second and of the first
\* canonical name: the output has the canonical names first, in canonical
\* order, then the two labels as they came.
C23_Witness ==
    /\ Sorted_out
    /\ inputs.drugs
    /\ Len(call.arg) = 4 /\ Len(call.ret) = 4
    /\ call.arg[3].substance = <<"M", "D", "M", "A">>
    /\ call.arg[4].substance = <<"l", "-", "s", "d">>
    /\ OutKeys = << <<"L", "S", "D">>, <<"M", "D", "M", "A">>,
                    call.arg[1].substance, call.arg[2].substance >>

\* C24: in every result of analyze_doses, Fatal is "Unknown" and Dangerous is
\* the empty string.
C24_FatalAndDangerous ==
    (Analyzed /\ call.ret # <<>>) =>
        /\ call.ret[1].Fatal = [kind |-> "Unknown", lo |-> 0, hi |-> 0, unit |-> <<>>]
        /\ call.ret[1].Dangerous = [kind |-> "", lo |-> 0, hi |-> 0, unit |-> <<>>]

\* A result with five samples and all the other bands populated.
C24_Witness ==
    /\ Analyzed /\ call.ret # <<>>
    /\ call.ret[1].Threshold.kind = "single"
    /\ call.ret[1].Light.kind = "range"
    /\ call.ret[1].Strong.kind = "range"
    /\ call.ret[1].Heavy.kind = "plus"
    /\ call.ret[1].stats.total_reports = 5

\* The element of the ascending values at 0-based index
\* min(floor(count * p / 100), count - 1), p in tenths of a hundred.
AtIndex(vals, tenths) ==
    LET floor == (Len(vals) * tenths) \div 10
    IN  vals[(IF floor < Len(vals) - 1 THEN floor ELSE Len(vals) - 1) + 1]

\* C32 (as claimed): with five or more values, the percentiles the bands are
\* made of are the elements at index min(floor(count * p / 100), count - 1)
\* of the ascending values: Threshold ends at p10, Common goes from p30 to
\* p70, Heavy starts at p90.
C32_PercentileByIndex ==
    (call.fn = "analyze_valid" /\ call.returned /\ Len(call.arg) >= 5) =>
        /\ call.ret[1].Threshold.hi = AtIndex(call.arg, 1)
        /\ call.ret[1].Common.lo = AtIndex(call.arg, 3)
        /\ call.ret[1].Common.hi = AtIndex(call.arg, 7)
        /\ call.ret[1].Heavy.lo = AtIndex(call.arg, 9)

\* A range as it is written: the single value when the endpoints are equal.
Written(lo, hi, u) ==
    IF lo = hi THEN [kind |-> "single", lo |-> lo, hi |-> lo, unit |-> u]
    ELSE [kind |-> "range", lo |-> lo, hi |-> hi, unit |-> u]

\* C33: with five or more samples in the selected unit, Threshold is
\* [min, p10], Common is [p30, p70] and Heavy is p90+, all three populated;
\* Light is [p10, p30] when p30 > p10 and empty otherwise, Strong is
\* [p70, p90] when p90 > p70 and empty otherwise; every populated range has
\* its lower endpoint at most its upper one and is a single value when the
\* two are equal.
C33_BandsPopulated ==
    Analyzed =>
        LET s == Samples
        IN  TopCount(s) >= 5 =>
                /\ call.ret # <<>>
                /\ LET r == call.ret[1]
                       u == r.Heavy.unit
                       p10 == Percentile(s, u, 1)
                       p30 == Percentile(s, u, 3)
                       p70 == Percentile(s, u, 7)
                       p90 == Percentile(s, u, 9)
                   IN  /\ u \in TopUnits(s)
                       /\ r.Threshold = Written(Least(ValuesIn(s, u)), p10, u)
                       /\ r.Light = (IF p30 > p10 THEN Written(p10, p30, u) ELSE Blank)
                       /\ r.Common = Written(p30, p70, u)
                       /\ r.Strong = (IF p90 > p70 THEN Written(p70, p90, u) ELSE Blank)
                       /\ r.Heavy = [kind |-> "plus", lo |-> p90, hi |-> p90, unit |-> u]
                       /\ \A b \in BandsOf(r) : b.lo <= b.hi

\* Five or more samples with p10 = p30 and p70 < p90: Threshold is a single
\* value, Light is empty, Strong is a range.
C33_Witness ==
    /\ Analyzed /\ call.ret # <<>>
    /\ TopCount(Samples) >= 5
    /\ call.ret[1].Threshold.kind = "single"
    /\ call.ret[1].Light = Blank
    /\ call.ret[1].Common.kind = "range"
    /\ call.ret[1].Strong.kind = "range"

\* The sum of the frequencies of a distribution.
RECURSIVE Total(_)
Total(dist) == IF dist = <<>> THEN 0 ELSE Head(dist).n + Total(Tail(dist))

\* C34: in every result, total_reports is the number of samples in the
\* selected unit, the frequencies of the distribution sum to it, and the keys
\* of the distribution are the distinct values of those samples, each once,
\* in ascending order.
C34_StatsConsistent ==
    (Analyzed /\ call.ret # <<>>) =>
        LET s == Samples
            r == call.ret[1]
            u == r.Common.unit
            dist == r.stats.distribution
        IN  /\ u \in TopUnits(s)
            /\ r.stats.total_reports = Cardinality(SamplesIn(s, u))
            /\ Total(dist) = r.stats.total_reports
            /\ {dist[i].val : i \in DOMAIN dist} = ValuesIn(s, u)
            /\ \A i \in DOMAIN dist : dist[i].unit = u
            /\ \A i, j \in DOMAIN dist : i < j => dist[i].val < dist[j].val

\* Samples given in descending order, one value twice, next to a sample in
\* another unit: the distribution has two keys, one of frequency 2.
C34_Witness ==
    /\ Analyzed /\ call.ret # <<>>
    /\ Len(call.ret[1].stats.distribution) = 2
    /\ call.ret[1].stats.distribution[1].n = 2
    /\ call.ret[1].stats.total_reports = 3
    /\ Len(Samples) = 4
    /\ Samples[1].val > Samples[2].val /\ Samples[1].unit = Samples[2].unit

\* Two rearrangements of a list that together generate every permutation:
\* the first two elements exchanged, and the first element moved to the end.
Exchanged(l) == IF Len(l) < 2 THEN l ELSE <<l[2], l[1]>> \o SubSeq(l, 3, Len(l))
Rotated(l) == IF l = <<>> THEN l ELSE Append(Tail(l), Head(l))

\* The position of the first sample in unit u.
FirstSample(s, u) == CHOOSE i \in SamplesIn(s, u) : \A j \in SamplesIn(s, u) : i <= j

\* C36: when one unit has strictly the most samples, the result for a list
\* of dose strings is also the result for the list with its first two
\* strings exchanged and for the list with its first string moved to the
\* end (hence for every permutation, the lists being all the lists); in
\* every case the selected unit is, among the units with the most samples,
\* the one whose first sample comes first.
C36_OrderOfSamples ==
    Analyzed =>
        LET s == Samples
        IN  /\ Cardinality(TopUnits(s)) = 1 =>
                   /\ call.ret = analyze_doses(Exchanged(call.arg))
                   /\ call.ret = analyze_doses(Rotated(call.arg))
            /\ s # <<>> =>
                   /\ call.ret # <<>>
                   /\ call.ret[1].Common.unit \in TopUnits(s)
                   /\ \A u \in TopUnits(s) :
                          FirstSample(s, call.ret[1].Common.unit) <= FirstSample(s, u)

\* Three samples in g and three in mg, the first one in g: g is selected.
C36_Witness ==
    /\ Analyzed /\ call.ret # <<>>
    /\ Len(Samples) = 6
    /\ Cardinality(TopUnits(Samples)) = 2
    /\ Samples[1].unit = <<"g">>
    /\ Samples[2].unit = <<"m", "g">>
    /\ call.ret[1].Common.unit = <<"g">>

\* The band data of a raw label: the bands of its own groups.
OwnData(lab) ==
    formatted_dose(AddDoses(EmptyMap, call.arg), lab, FirstSeen(MethodsOf(call.arg, lab), <<>>))

\* C35 (as claimed): every raw label that has a band is in the final output
\* with its own band data, under its own name or under the canonical name it
\* matches.
C35_NoGroupDropped ==
    Sorted_out =>
        \A lab \in Labels :
            HasBand(lab) =>
                \E i \in DOMAIN call.ret :
                    /\ \/ call.ret[i].key = lab
                       \/ /\ IsCanonical(call.ret[i].key)
                          /\ normalize(call.ret[i].key) = normalize(lab)
                    /\ call.ret[i].data = OwnData(lab)

\* C31: every run reaches the aggregation step and writes the final result
\* file, whatever fetches fail, ledger writes fail or responses are block
\* pages.
C31_RunTerminates == <>(opc = "done" /\ final.written /\ final.exit_status = 0)

\* The final file is written in a run in which a category page was a block
\* page, a report task failed, another was answered with a block page, and
\* the ledger was left unparsable.
C31_Witness ==
    /\ opc = "done" /\ final.written
    /\ blocked
    /\ \E u \in DOMAIN rfut : rfut[u].st = "failed"
    /\ \E u \in DOMAIN rfut : rfut[u].st = "blocked"
    /\ ledgerFile.kind = "corrupt"

\* extract_doses_from_text has returned; the matches of the pattern in its
\* text.
Extracted == call.fn = "extract_doses_from_text" /\ call.returned
Found == findall(dose_pattern, call.arg)

\* The unit and route words of the pattern, in lower case.
UnitTokens ==
    {Lower(UnitRe.parts[i].s) : i \in 1..5}
        \cup {<<"d", "r", "o", "p">>, <<"d", "r", "o", "p", "s">>,
              <<"c", "a", "p", "s", "u", "l", "e">>, <<"c", "a", "p", "s", "u", "l", "e", "s">>}
RouteTokens == {Lower(MethodRe.parts[i].s) : i \in DOMAIN MethodRe.parts}

\* str without its whitespace.
IsInk(c) == c \notin Whitespace
Ink(str) == SelectSeq(str, IsInk)

\* The only whitespace of str is single spaces between other characters.
SingleSpaced(str) ==
    /\ \A i \in DOMAIN str : str[i] \in Whitespace => str[i] = " "
    /\ \A i \in DOMAIN str :
           str[i] = " " => (i > 1 /\ i < Len(str) /\ str[i + 1] # " ")

\* Position p of the text lies in the i-th match.
Within(found, i, p) == found[i].groups[1][1] <= p /\ p < found[i].pos

\* C37: the records returned for a text are, in order, one per match of the
\* pattern; the matches follow each other from left to right without
\* overlapping, and no match begins at a position outside them; in each
\* record the dose is the matched number, a space and the matched unit, the
\* method is the matched route word in lower case, and the substance is the
\* matched name with every whitespace run collapsed to one space and no
\* whitespace at its ends.
C37_RecordPerMatch ==
    Extracted =>
        LET text == call.arg
            found == Found
            r == call.ret
        IN  /\ Len(r) = Len(found)
            /\ \A i \in DOMAIN found :
                   LET g == found[i].groups
                   IN  /\ g[1][1] >= (IF i = 1 THEN 1 ELSE found[i - 1].pos)
                       /\ g[1][1] <= g[1][2] /\ g[1][2] < g[2][1]
                       /\ g[2][1] <= g[2][2] /\ g[2][2] < g[3][1]
                       /\ g[3][1] <= g[3][2] /\ g[3][2] < g[4][1]
                       /\ g[4][1] <= g[4][2] /\ g[4][2] < found[i].pos
                       /\ found[i].pos <= Len(text) + 1
                       /\ r[i].dose = GroupText(text, found[i], 1) \o <<" ">> \o GroupText(text, found[i], 2)
                       /\ \A k \in g[1][1]..g[1][2] : text[k] \in DigitSet \cup {"."}
                       /\ Lower(GroupText(text, found[i], 2)) \in UnitTokens
                       /\ r[i].method = Lower(GroupText(text, found[i], 3))
                       /\ r[i].method \in RouteTokens
                       /\ SingleSpaced(r[i].substance)
                       /\ Ink(r[i].substance) = Ink(GroupText(text, found[i], 4))
                       /\ r[i].substance # <<>>
            /\ \A p \in DOMAIN text :
                   (\A i \in DOMAIN found : ~Within(found, i, p)) =>
                       MatchAt(dose_pattern, text, StartAt(p)) = <<>>

\* "1.5 G IV l  s-d (x)" and then "5 dropsmoked LSD": two records, the first
\* with the route in lower case and the name with one space, the second with
\* the unit "drop", the "s" belonging to the route.
C37_Witness ==
    /\ Extracted
    /\ Len(call.ret) = 2
    /\ call.ret[1] = [substance |-> <<"l", " ", "s", "-", "d">>,
                      dose |-> <<"1", ".", "5", " ", "G">>,
                      method |-> <<"i", "v">>]
    /\ call.ret[2] = [substance |-> <<"L", "S", "D">>,
                      dose |-> <<"5", " ", "d", "r", "o", "p">>,
                      method |-> <<"s", "m", "o", "k", "e", "d">>]

====
